---- MODULE Spec2Model ----
(***************************************************************************)
(* Model of backend/main.py (Vibeloop Ops Copilot): the normalizer, the    *)
(* five metric windows, the synthesis layer (metrics, evidence, charts,    *)
(* actions), the rule-based and LLM answer paths, and the upload / ask /   *)
(* reprocess handlers over the in-memory DATASETS registry.                *)
(*                                                                         *)
(* Conventions.  A cell is <<>> (NaN / NaT / None), a number <<v>>, a name *)
(* <<id>> or a timestamp <<day, ns>>.  Days are numbered with day 0 a      *)
(* Monday, so the W-SUN period of day d starts on day d - (d % 7).  The    *)
(* names of a column are either numbers, or strings numbered from 1 in the *)
(* order they sort: id 0 is the number zero, the one name that is falsy.   *)
(* A character is its code point.  A data frame is                         *)
(*   [columns |-> the expected columns it has,                             *)
(*    rows    |-> per row, the cell of each of them,                       *)
(*    dups    |-> the expected columns whose name occurs more than once,   *)
(*    header  |-> df.columns, the names of all its columns in order,       *)
(*    cells   |-> per row, the cell at each position of the header].       *)
(* A call returns Ok(value) or Raise(exception).                           *)
(***************************************************************************)
EXTENDS Integers, Sequences, FiniteSets, TLC

VARIABLES
    df,            \* engine: the normalized table handed to the function
    out,           \* engine: the last call, [fn, arg, res]
    sortTies,      \* how this build's quicksort leaves rows with equal keys
    DATASETS,      \* main.py:29  dataset_id -> normalized table
    UPLOAD_INDEX,  \* main.py:49  list of upload records, newest first
    disk,          \* UPLOAD_DIR: stored_name -> raw file
    uuids,         \* number of uuid4() values drawn so far
    uploads,       \* upload requests suspended at `await file.read()`
    response,      \* the response the last step sent, if it sent one
    INDEX_FILE,    \* main.py:32  uploads/index.json
    issued,        \* history: dataset_id -> table it was issued with
    llm            \* environment: OPENAI_API_KEY set and openai importable

engineVars == <<df, out>>
serverVars == <<DATASETS, UPLOAD_INDEX, INDEX_FILE, disk, uuids, uploads, response,
                issued, llm>>
vars == <<df, out, sortTies, DATASETS, UPLOAD_INDEX, INDEX_FILE, disk, uuids, uploads,
          response, issued, llm>>

(***************************************************************************)
(* Bounds of the model.                                                    *)
(***************************************************************************)
MaxRows == 26
MaxItems == 12
SmallRows == 3

(***************************************************************************)
(* Program constants.                                                      *)
(***************************************************************************)
EXPECTED_COLUMNS ==
    {"date", "item", "sku", "units_sold", "revenue", "inventory_on_hand",
     "category", "expenses"}
WeeklyTail == 6
DailyTail == 14
TrendingHead == 8
ReorderHead == 10
AnomaliesTail == 5
AnomalyMinDays == 7
ZThreshold == 2
ActionsHead == 3
LastWeekDays == 6
PriorWeekDays == 7
\* the day of 1970-01-01, a Thursday: pd.to_datetime reads a number as the
\* nanoseconds since then
EpochDay == 3

(***************************************************************************)
(* Values.                                                                 *)
(***************************************************************************)
NaN == <<>>
NaT == <<>>
Ok(v) == [ok |-> TRUE, val |-> v, exc |-> "none"]
Raise(e) == [ok |-> FALSE, val |-> <<>>, exc |-> e]
IsNA(c) == c = <<>>

Range(s) == {s[i] : i \in 1..Len(s)}
Abs(x) == IF x < 0 THEN -x ELSE x

\* Timestamps.  <<day, ns>> is the instant ns nanoseconds after the midnight
\* that begins day `day`; ns is an integer of the checker, far less than a
\* day in size, so two timestamps compare by day, then by ns, and a
\* negative ns lies in the day before.
TsLess(a, b) == a[1] < b[1] \/ (a[1] = b[1] /\ a[2] < b[2])
\* t - timedelta(days=n)
DaysBefore(t, n) == <<t[1] - n, t[2]>>
\* Timestamp.date(), Series.dt.date
DateOf(t) == IF t[2] < 0 THEN t[1] - 1 ELSE t[1]
SetMax(S) == CHOOSE x \in S : \A y \in S : y <= x
SetMin(S) == CHOOSE x \in S : \A y \in S : x <= y

\* Faulty variant of tail: no cap.  C7 must tell it from tail.
KeepAll(s, n) == s

\* DataFrame.head(n) / DataFrame.tail(n)
head(s, n) == IF Len(s) <= n THEN s ELSE SubSeq(s, 1, n)
tail(s, n) == IF Len(s) <= n THEN s ELSE SubSeq(s, Len(s) - n + 1, Len(s))

\* DataFrame.dropna(subset=[c])
dropna(rows, c) == SelectSeq(rows, LAMBDA r : ~IsNA(r[c]))

\* Series.sum(): missing cells are skipped, an empty sum is 0
RECURSIVE SumCol(_, _)
SumCol(rows, c) ==
    IF rows = <<>> THEN 0
    ELSE (IF IsNA(rows[1][c]) THEN 0 ELSE rows[1][c][1]) + SumCol(Tail(rows), c)

\* number of non-missing cells of a column (the divisor of Series.mean())
CountCol(rows, c) == Len(dropna(rows, c))

\* The keys of a groupby, which sorts them ascending.
RECURSIVE SortedSeq(_)
SortedSeq(S) ==
    IF S = {} THEN <<>>
    ELSE LET m == SetMin(S) IN <<m>> \o SortedSeq(S \ {m})

\* The same for keys that are tuples: the values of several key columns, or
\* a timestamp.
RECURSIVE LexLess(_, _)
LexLess(a, b) ==
    IF a = <<>> \/ b = <<>> THEN FALSE
    ELSE IF a[1] # b[1] THEN a[1] < b[1]
    ELSE LexLess(Tail(a), Tail(b))

RECURSIVE SortedKeys(_)
SortedKeys(S) ==
    IF S = {} THEN <<>>
    ELSE LET m == CHOOSE x \in S : \A y \in S : ~LexLess(y, x)
         IN  <<m>> \o SortedKeys(S \ {m})

(***************************************************************************)
(* sort_values.  pandas' nargsort argsorts with numpy's default quicksort; *)
(* rows with equal keys come out in an order the build decides (insertion  *)
(* sort below 16 elements keeps them in place, the vectorised argsort does *)
(* not).  sortTies = "first" keeps equal rows in their order, "last"       *)
(* reverses them.                                                          *)
(***************************************************************************)
\* weeks_of_cover = inv / (avg * 7 + 1e-6) with inv = inv_n / inv_d and
\* avg = avg_n / avg_d (inv_d, avg_d > 0): the value is N / W with
\*   N = inv_n * avg_d,  W = inv_d * (7 * avg_n + avg_d * 1e-6),
\* and W has the sign of the demand: positive for avg_n >= 0, negative for
\* avg_n < 0 (returns outweigh sales).  N_a * W_b - N_b * W_a is
\* P + Q * 1e-6 for the integers P, Q below, negative iff P < 0, or P = 0
\* and Q < 0 (|Q| < 10^6); it decides a.woc < b.woc as it stands when W_a
\* and W_b have the same sign, and reversed when they differ.
WocP(a, b) ==
    (a.inv_n * a.avg_d) * (7 * b.avg_n * b.inv_d)
    - (b.inv_n * b.avg_d) * (7 * a.avg_n * a.inv_d)
WocQ(a, b) ==
    (a.inv_n * a.avg_d) * (b.inv_d * b.avg_d) - (b.inv_n * b.avg_d) * (a.inv_d * a.avg_d)
WocLess(a, b) ==
    IF (a.avg_n >= 0) <=> (b.avg_n >= 0)
    THEN WocP(a, b) < 0 \/ (WocP(a, b) = 0 /\ WocQ(a, b) < 0)
    ELSE WocP(a, b) > 0 \/ (WocP(a, b) = 0 /\ WocQ(a, b) > 0)

\* The strict order of sort_values(by): ascending by week, date or
\* weeks_of_cover, descending (ascending=False) by change or by revenue.
Before(by, a, b) ==
    CASE by = "week" -> a.week < b.week
      [] by = "date" -> TsLess(a.date, b.date)
      [] by = "change" -> a.change > b.change
      [] by = "revenue" -> a.revenue > b.revenue
      [] by = "weeks_of_cover" -> WocLess(a, b)

RECURSIVE InsertRow(_, _, _, _)
InsertRow(x, s, by, ties) ==
    IF s = <<>> THEN <<x>>
    ELSE IF Before(by, x, s[1]) \/ (ties = "last" /\ ~Before(by, s[1], x))
         THEN <<x>> \o s
         ELSE <<s[1]>> \o InsertRow(x, Tail(s), by, ties)

RECURSIVE sort_values(_, _, _)
sort_values(s, by, ties) ==
    IF s = <<>> THEN <<>>
    ELSE InsertRow(s[Len(s)], sort_values(SubSeq(s, 1, Len(s) - 1), by, ties), by, ties)

\* n / d rounded to the nearest integer, an exact half to even (d > 0):
\* what .0f prints of the float n / d, whose halves are exact in binary,
\* and what .1f prints of a value that is not halfway between two tenths.
RoundDiv(n, d) ==
    LET q == n \div d
        r == n % d
    IN  IF 2 * r < d THEN q
        ELSE IF 2 * r > d THEN q + 1
        ELSE IF q % 2 = 0 THEN q ELSE q + 1

(***************************************************************************)
(* .1f of a float.  The format rounds the binary value of the float, so a  *)
(* value halfway between two tenths goes the way the float's own rounding  *)
(* error points, and to even only if the float is exact.  A float has a    *)
(* 53-bit significand: x in [2^e, 2^(e+1)) is stored as the integer        *)
(* nearest to x * 2^(52 - e).                                              *)
(***************************************************************************)
\* floor(log2(n / d)) for n, d > 0
RECURSIVE Log2Floor(_, _)
Log2Floor(n, d) ==
    IF 2 * d <= n THEN 1 + Log2Floor(n, 2 * d)
    ELSE IF n < d THEN Log2Floor(2 * n, d) - 1
    ELSE 0

\* 2^k mod m
RECURSIVE Pow2Mod(_, _)
Pow2Mod(k, m) == IF k = 0 THEN 1 % m ELSE (2 * Pow2Mod(k - 1, m)) % m

\* tenths printed for a float z next to the half k + 1/2, given the sign of
\* z - (k + 1/2): at the half itself, the even neighbour
TenthsBy(k, sign) == IF sign > 0 THEN k + 1 ELSE IF sign < 0 THEN k ELSE k + (k % 2)

\* The float of M / 20 (M odd), formatted: M / 20 is exact if 5 divides M;
\* otherwise the fraction dropped from its significand M * 2^(50 - e) / 5
\* is f / 5, and the float is above M / 20 iff f >= 3.
TwentiethsTenths(M) ==
    IF M % 5 = 0 THEN TenthsBy((M - 1) \div 2, 0)
    ELSE IF ((M % 5) * Pow2Mod((50 - Log2Floor(M, 20)) % 4, 5)) % 5 >= 3
    THEN (M - 1) \div 2 + 1
    ELSE (M - 1) \div 2

\* f"{row['avg_daily_units']:.1f}" (main.py:301, 342) in tenths, for the
\* float n / d; floats and their formats are symmetric in the sign
RECURSIVE MeanTenths(_, _)
MeanTenths(n, d) ==
    IF n < 0 THEN -MeanTenths(-n, d)
    ELSE IF (20 * n) % d = 0 /\ ((20 * n) \div d) % 2 = 1
    THEN TwentiethsTenths((20 * n) \div d)
    ELSE RoundDiv(10 * n, d)

\* drop = (prev - last) / prev * 100 takes two float operations.  With
\* a = prev - last > 0 and 1000 * a / prev = M / 2 for an odd M, the
\* quotient is x = a / prev = m / (16 * 5^j), where 5^(3-j) is the power of
\* 5 in M, at most 5^3, and m = M / 5^(3-j).
FivesIn(M) ==
    IF M % 125 = 0 THEN 3 ELSE IF M % 25 = 0 THEN 2 ELSE IF M % 5 = 0 THEN 1 ELSE 0

\* The float of x is Y * 2^(e - 52) with Y the integer nearest to
\* x * 2^(52 - e) = m * 2^(48 - e) / 5^j.  With r the remainder of
\* m * 2^(48 - e) by F = 5^j, QuotientError is Y * F - m * 2^(48 - e).
QuotientError(r, F) == IF r = 0 THEN 0 ELSE IF 2 * r < F THEN -r ELSE F - r

\* 100 * Y has 59 or 60 bits, of which the float of the product keeps 53:
\* 2^6 or 2^7 is rounded away.  It has 60 bits iff M / 20 >= 2^(e + 7),
\* and for M / 20 = 2^(e + 7) (M = 5, e = -9) iff Y was rounded up.
RoundedAway(M, e, E) ==
    IF M = 5 /\ e = -9 THEN (IF E >= 0 THEN 128 ELSE 64)
    ELSE IF Log2Floor(M, 20) >= e + 7 THEN 128 ELSE 64

\* what rounding 100 * Y to a multiple of P (nearest, halves to even) adds
ProductError(low, P) ==
    IF 2 * (low % P) > P \/ (2 * (low % P) = P /\ low % (2 * P) >= P)
    THEN P - (low % P)
    ELSE -(low % P)

\* the sign of (float of the drop) - M / 20, times a positive factor.  The
\* low 8 bits of 100 * Y follow from Y * 5^j = E (mod 64), 13 being the
\* inverse of 5 modulo 64.
DropErrorSign(M, j, e, E) ==
    ProductError((4 * ((25 * ((E * ((13 ^ j) % 64)) % 64)) % 64)) % 256,
                 RoundedAway(M, e, E)) * (5 ^ j)
    + 100 * E

DropTie(M, j, e) ==
    TenthsBy((M - 1) \div 2,
             DropErrorSign(M, j, e,
                 QuotientError(((M \div (5 ^ (3 - j))) * Pow2Mod(48 - e, 5 ^ j)) % (5 ^ j),
                               5 ^ j)))

(***************************************************************************)
(* compute_weekly_revenue (main.py:88-99)                                  *)
(***************************************************************************)
\* d["date"].dt.to_period("W").dt.start_time: the midnight that begins the
\* Monday of the week, as its day
WeekStart(t) == DateOf(t) - (DateOf(t) % 7)

\* .assign(week=...).groupby("week", as_index=False)["revenue"].sum()
WeeklySums(rows) ==
    LET weeks == SortedSeq({WeekStart(r["date"]) : r \in Range(rows)})
    IN  [j \in 1..Len(weeks) |->
            [week |-> weeks[j],
             revenue |-> SumCol(SelectSeq(rows,
                            LAMBDA r : WeekStart(r["date"]) = weeks[j]), "revenue")]]

compute_weekly_revenue(frame, ties) ==
    IF "date" \notin frame.columns THEN Ok(<<>>)
    ELSE IF "revenue" \notin frame.columns THEN Raise("KeyError")
    ELSE Ok(tail(sort_values(WeeklySums(dropna(frame.rows, "date")), "week", ties),
                 WeeklyTail))

(***************************************************************************)
(* Objects.  A DataFrame is passed by reference.  A function body runs on  *)
(* a heap, the sequence of the tables it has made so far, the caller's     *)
(* table, bound to the parameter df, first.  An expression that returns a  *)
(* DataFrame (dropna, groupby().sum(), sort_values, merge) appends a new   *)
(* object to the heap; a column assignment t[c] = values changes the       *)
(* object t is bound to and no other.  A body ends with [heap, ret]: what  *)
(* it returns, and the heap it leaves, the first object of which is the    *)
(* caller's table after the call.                                          *)
(***************************************************************************)

(***************************************************************************)
(* compute_daily_financials (main.py:102-124)                              *)
(***************************************************************************)
\* .groupby("date", as_index=False)[[c]].sum()
DateSums(rows, c) ==
    LET dates == SortedKeys({r["date"] : r \in Range(rows)})
    IN  [j \in 1..Len(dates) |->
            [date |-> dates[j],
             total |-> SumCol(SelectSeq(rows, LAMBDA r : r["date"] = dates[j]), c)]]

DailySums(frame, c) == DateSums(dropna(frame.rows, "date"), c)

\* the cell of `right` for a date, missing when it has none
Lookup(right, date) ==
    IF \E j \in 1..Len(right) : right[j].date = date
    THEN <<right[CHOOSE j \in 1..Len(right) : right[j].date = date].total>>
    ELSE NaN

\* DataFrame.merge(daily_expenses, on="date", how="left"): the left rows in
\* their order, the right value where the date matches, else missing
MergeLeft(left, right) ==
    [j \in 1..Len(left) |->
        [date |-> left[j].date, revenue |-> left[j].total,
         expenses |-> Lookup(right, left[j].date)]]

\* the table with expenses = 0.0 in every row
ZeroExpenses(daily) ==
    [j \in 1..Len(daily) |->
        [date |-> daily[j].date, revenue |-> daily[j].total, expenses |-> <<0>>]]

\* the table with net_income = revenue - expenses
WithNetIncome(daily) ==
    [j \in 1..Len(daily) |->
        [date |-> daily[j].date, revenue |-> daily[j].revenue,
         expenses |-> daily[j].expenses,
         net_income |-> IF IsNA(daily[j].expenses) THEN NaN
                        ELSE <<daily[j].revenue - daily[j].expenses[1]>>]]

\* main.py:106-111 and 185-190: daily, a new object, the last of the heap
GroupDaily(heap, ties) ==
    Append(heap, sort_values(DailySums(Head(heap), "revenue"), "date", ties))

\* Faulty variant of AssignExpenses: the column is assigned on df as well,
\* as it would be if daily were a view of df.  C6 must tell it from
\* AssignExpenses.
AssignExpensesOnDf(heap) ==
    [heap EXCEPT ![Len(heap)] = ZeroExpenses(@),
                 ![1] = [columns |-> @.columns \cup {"expenses"},
                         rows |-> [i \in 1..Len(@.rows) |->
                                     [c \in @.columns \cup {"expenses"} |->
                                         IF c = "expenses" THEN <<0>> ELSE @.rows[i][c]]],
                         dups |-> @.dups,
                         header |-> Append(@.header, <<101, 120, 112, 101, 110, 115, 101, 115>>),
                         cells |-> [i \in 1..Len(@.cells) |-> Append(@.cells[i], <<0>>)]]]

\* daily["expenses"] = 0.0 (main.py:121)
AssignExpenses(heap) == [heap EXCEPT ![Len(heap)] = ZeroExpenses(@)]

\* main.py:113-121: daily = daily.merge(...) binds daily to a new object
JoinExpenses(heap) ==
    IF "expenses" \in Head(heap).columns
    THEN Append(heap, MergeLeft(heap[Len(heap)], DailySums(Head(heap), "expenses")))
    ELSE AssignExpenses(heap)

\* daily["net_income"] = daily["revenue"] - daily["expenses"] (main.py:123)
AssignNetIncome(heap) == [heap EXCEPT ![Len(heap)] = WithNetIncome(@)]

\* return daily.tail(14)
ReturnDaily(heap) == [heap |-> heap, ret |-> Ok(tail(heap[Len(heap)], DailyTail))]

\* the body of compute_daily_financials on the caller's table
RunDailyFinancials(frame, ties) ==
    IF "date" \notin frame.columns \/ "revenue" \notin frame.columns
    THEN [heap |-> <<frame>>, ret |-> Ok(<<>>)]
    ELSE ReturnDaily(AssignNetIncome(JoinExpenses(GroupDaily(<<frame>>, ties))))

compute_daily_financials(frame, ties) == RunDailyFinancials(frame, ties).ret

\* the caller's table after the call
df_after_daily_financials(frame, ties) == Head(RunDailyFinancials(frame, ties).heap)

(***************************************************************************)
(* compute_trending_items (main.py:127-153)                                *)
(***************************************************************************)
\* groupby("item"): the items of the rows (rows with a missing item dropped)
ItemsOf(rows) == {r["item"][1] : r \in {x \in Range(rows) : ~IsNA(x["item"])}}

ItemSum(rows, it, c) ==
    SumCol(SelectSeq(rows, LAMBDA r : r["item"] = <<it>>), c)

\* groupby("item")["units_sold"].sum(), or 0 for an item the window lacks
\* (the outer join's missing value, filled by fillna(0))
SalesOf(window, it) ==
    IF it \in ItemsOf(window) THEN ItemSum(window, it, "units_sold") ELSE 0

\* df[(df["date"] >= from) & (df["date"] <= to)]
DatedWithin(rows, from, to) ==
    SelectSeq(rows, LAMBDA r : ~TsLess(r["date"], from) /\ ~TsLess(to, r["date"]))
\* df[(df["date"] >= from) & (df["date"] < before)]
DatedFromBefore(rows, from, before) ==
    SelectSeq(rows, LAMBDA r : ~TsLess(r["date"], from) /\ TsLess(r["date"], before))

\* pd.DataFrame({"last_week": last_sales, "prior_week": prior_sales})
\*   .fillna(0).assign(change=...): one row per item of either window, the
\* items ascending
TrendFrame(last_week, prior_week) ==
    LET index == SortedSeq(ItemsOf(last_week) \cup ItemsOf(prior_week))
    IN  [j \in 1..Len(index) |->
            [item |-> index[j],
             last_week |-> SalesOf(last_week, index[j]),
             prior_week |-> SalesOf(prior_week, index[j]),
             change |-> SalesOf(last_week, index[j]) - SalesOf(prior_week, index[j])]]

\* Faulty variant of last_week_start: last week taken as the 7 days before
\* last_date.  C9 must tell it from last_week_start.
WeekBack(last_date) == DaysBefore(last_date, PriorWeekDays)

\* df["date"].max()
LastDate(rows) == CHOOSE t \in Range(rows) : \A r \in Range(rows) : ~TsLess(t["date"], r["date"])
last_week_start(last_date) == DaysBefore(last_date, LastWeekDays)
prior_week_start(last_date) == DaysBefore(last_week_start(last_date), PriorWeekDays)

\* main.py:136-153, for rows with valid dates, the last of them last_date
TrendOf(rows, last_date, ties) ==
    head(sort_values(
            TrendFrame(DatedWithin(rows, last_week_start(last_date), last_date),
                       DatedFromBefore(rows, prior_week_start(last_date),
                                       last_week_start(last_date))),
            "change", ties),
         TrendingHead)

\* groupby("item") raises on a table with two columns named item, before
\* ["units_sold"] is looked up
TrendingRows(frame, rows, ties) ==
    IF rows = <<>> THEN Ok(<<>>)
    ELSE IF "item" \in frame.dups THEN Raise("ValueError")
    ELSE IF "units_sold" \notin frame.columns THEN Raise("KeyError")
    ELSE Ok(TrendOf(rows, LastDate(rows)["date"], ties))

compute_trending_items(frame, ties) ==
    IF "date" \notin frame.columns \/ "item" \notin frame.columns THEN Ok(<<>>)
    ELSE TrendingRows(frame, dropna(frame.rows, "date"), ties)

(***************************************************************************)
(* compute_reorder_list (main.py:156-178)                                  *)
(***************************************************************************)
ItemColOrder == <<"item", "sku", "category">>

item_cols(frame) == SelectSeq(ItemColOrder, LAMBDA c : c \in frame.columns)

\* the group key of a row, or <<>> when one of its key cells is missing
\* (groupby drops such rows)
KeyOf(r, cols) ==
    IF \E j \in 1..Len(cols) : IsNA(r[cols[j]]) THEN <<>>
    ELSE [j \in 1..Len(cols) |-> r[cols[j]][1]]

GroupKeys(rows, cols) == {KeyOf(r, cols) : r \in Range(rows)} \ {<<>>}
Group(rows, cols, k) == SelectSeq(rows, LAMBDA r : KeyOf(r, cols) = k)

\* Series.mean() of a group as the fraction num / den; a group without a
\* value has mean NaN, which fillna(0) turns into 0
MeanNum(rows, c) == IF CountCol(rows, c) = 0 THEN 0 ELSE SumCol(rows, c)
MeanDen(rows, c) == IF CountCol(rows, c) = 0 THEN 1 ELSE CountCol(rows, c)

\* the value of key column c in key k, missing when c is not a key column
KeyCell(k, cols, c) ==
    IF \E j \in 1..Len(cols) : cols[j] = c
    THEN <<k[CHOOSE j \in 1..Len(cols) : cols[j] = c]>>
    ELSE NaN

\* pd.concat([demand, inventory], axis=1): the keys of demand, then the
\* keys only inventory has
ConcatIndex(demandKeys, inventoryKeys) ==
    demandKeys \o SelectSeq(inventoryKeys, LAMBDA k : k \notin Range(demandKeys))

ReorderRow(k, cols, demand, inventory) ==
    [item |-> KeyCell(k, cols, "item"), sku |-> KeyCell(k, cols, "sku"),
     category |-> KeyCell(k, cols, "category"),
     avg_n |-> MeanNum(demand, "units_sold"), avg_d |-> MeanDen(demand, "units_sold"),
     inv_n |-> MeanNum(inventory, "inventory_on_hand"),
     inv_d |-> MeanDen(inventory, "inventory_on_hand")]

Merged(index, cols, recent, rows) ==
    [j \in 1..Len(index) |->
        ReorderRow(index[j], cols, Group(recent, cols, index[j]),
                   Group(rows, cols, index[j]))]

ReorderOf(rows, cols, recent, ties) ==
    head(sort_values(
            Merged(ConcatIndex(SortedKeys(GroupKeys(recent, cols)),
                               SortedKeys(GroupKeys(rows, cols))),
                   cols, recent, rows),
            "weeks_of_cover", ties),
         ReorderHead)

compute_reorder_list(frame, ties) ==
    IF "inventory_on_hand" \notin frame.columns THEN Ok(<<>>)
    ELSE IF "units_sold" \notin frame.columns THEN Raise("KeyError")
    ELSE IF item_cols(frame) = <<>> \/ Range(item_cols(frame)) \cap frame.dups # {}
    THEN Raise("ValueError")
    ELSE Ok(ReorderOf(frame.rows, item_cols(frame), dropna(frame.rows, "units_sold"), ties))

(***************************************************************************)
(* compute_anomalies (main.py:181-200)                                     *)
(***************************************************************************)
RECURSIVE SumSq(_)
SumSq(daily) ==
    IF daily = <<>> THEN 0 ELSE daily[1].total * daily[1].total + SumSq(Tail(daily))

RECURSIVE SumTotal(_)
SumTotal(daily) ==
    IF daily = <<>> THEN 0 ELSE daily[1].total + SumTotal(Tail(daily))

\* With N days, S their sum and SS the sum of squares, the z-score of x is
\*   (N*x - S) / (sqrt(N*SS - S*S) + N * 1e-6),
\* D / (sqrt(V) + N * 1e-6) in absolute value for the integers
\* D = |N*x - S| and V = N*SS - S*S.
ZVar(N, S, SS) == N * SS - S * S

\* aa * P - c >= Q * V, the products taken in two limbs of five digits so
\* that no intermediate exceeds 32 bits
ZGap(aa, P, Q, V, c) ==
    (aa * (P \div 100000) - Q * (V \div 100000))
    + ((aa * (P % 100000) - Q * (V % 100000) - c) \div 100000) >= 0

\* |z| >= u / a for a in {1, 20}: a*D - u*N*1e-6 >= u*sqrt(V), which squared
\* and scaled by 10^12 is
\*   (a*a*D*D - u*u*V) * 10^12 + (u*N)^2 >= 2*a*D*u*N * 10^6,
\* that is a*a*D*D - u*u*V >= c for c the least integer with
\* c * 10^6 + (u*N)^2 \div 10^6 >= 2*a*D*u*N.  In real arithmetic, from
\* which the float z differs by a few units of 2^-52 (D < 46341,
\* D*u*N < 2^31, u*u*V < 2^31 * 10^5).
ZAtLeast(a, u, D, V, N) ==
    /\ D >= 1
    /\ ZGap(a * a, D * D, u * u, V,
            (D * u * N) \div (500000 \div a)
            + (IF 2 * a * ((D * u * N) % (500000 \div a)) > (u * N * u * N) \div 1000000
               THEN 1 ELSE 0))

\* daily["z_score"].abs() >= 2
IsAnomaly(D, V, N) == ZAtLeast(1, ZThreshold, D, V, N)

\* |z| printed with one decimal (.1f), in tenths: the largest t with
\* |z| >= (2t - 1) / 20.  |z| is below sqrt(N), so (2t - 1)^2 < 400 * N.
ZTenths(D, V, N) ==
    SetMax({t \in 0..(10 * N) :
              \/ t = 0
              \/ /\ (2 * t - 1) * (2 * t - 1) <= 400 * N
                 /\ ZAtLeast(20, 2 * t - 1, D, V, N)})

SignedZTenths(D, V, N) == IF D < 0 THEN -ZTenths(-D, V, N) ELSE ZTenths(D, V, N)

\* the table with the column z_score: per row the z-score
\* D / (sqrt(V) + N * 1e-6) as <<D, V, N>>
Scored(daily, N, S, V) ==
    [j \in 1..Len(daily) |->
        [date |-> daily[j].date, revenue |-> daily[j].total,
         z_score |-> <<N * daily[j].total - S, V, N>>]]

\* daily["z_score"] = (daily["revenue"] - mean) / (std + 1e-6)
\* (main.py:194-196)
AssignZScore(heap) ==
    [heap EXCEPT ![Len(heap)] = Scored(@, Len(@), SumTotal(@), ZVar(Len(@), SumTotal(@), SumSq(@)))]

\* daily.loc[daily["z_score"].abs() >= 2]
AnomalousDays(daily) ==
    SelectSeq(daily, LAMBDA e : IsAnomaly(Abs(e.z_score[1]), e.z_score[2], e.z_score[3]))

\* the rows returned, the z-score as .1f prints it (main.py:361)
AnomaliesOf(rows) ==
    [j \in 1..Len(rows) |->
        [date |-> rows[j].date, revenue |-> rows[j].revenue,
         z_tenths |-> SignedZTenths(rows[j].z_score[1], rows[j].z_score[2],
                                    rows[j].z_score[3])]]

\* main.py:199-200
ReturnAnomalies(heap) ==
    [heap |-> heap,
     ret |-> Ok(AnomaliesOf(tail(AnomalousDays(heap[Len(heap)]), AnomaliesTail)))]

\* main.py:192-200
AnomalyRows(heap) ==
    IF Len(heap[Len(heap)]) < AnomalyMinDays THEN [heap |-> heap, ret |-> Ok(<<>>)]
    ELSE ReturnAnomalies(AssignZScore(heap))

\* the body of compute_anomalies on the caller's table
RunAnomalies(frame, ties) ==
    IF "date" \notin frame.columns \/ "revenue" \notin frame.columns
    THEN [heap |-> <<frame>>, ret |-> Ok(<<>>)]
    ELSE AnomalyRows(GroupDaily(<<frame>>, ties))

compute_anomalies(frame, ties) == RunAnomalies(frame, ties).ret

\* the caller's table after the call
df_after_anomalies(frame, ties) == Head(RunAnomalies(frame, ties).heap)

(***************************************************************************)
(* Text: a sequence of characters, each its code point.  str.lower() as    *)
(* CPython computes it from the Unicode character database (14.0, that of  *)
(* Python 3.11): the lowercase mapping of each character, two characters   *)
(* for U+0130, and for the capital sigma U+03A3 the final or the medial    *)
(* small sigma by the characters around it.                                *)
(***************************************************************************)
\* the characters with a lowercase mapping: <<first, last, step, shift>>
\* maps first, first + step, ..., last to the character `shift` further on
LowerRanges ==
    {<<65, 90, 1, 32>>, <<192, 214, 1, 32>>, <<216, 222, 1, 32>>,
     <<256, 302, 2, 1>>, <<306, 310, 2, 1>>, <<313, 327, 2, 1>>,
     <<330, 374, 2, 1>>, <<376, 376, 1, -121>>, <<377, 381, 2, 1>>,
     <<385, 385, 1, 210>>, <<386, 388, 2, 1>>, <<390, 390, 1, 206>>,
     <<391, 391, 1, 1>>, <<393, 394, 1, 205>>, <<395, 395, 1, 1>>,
     <<398, 398, 1, 79>>, <<399, 399, 1, 202>>, <<400, 400, 1, 203>>,
     <<401, 401, 1, 1>>, <<403, 403, 1, 205>>, <<404, 404, 1, 207>>,
     <<406, 406, 1, 211>>, <<407, 407, 1, 209>>, <<408, 408, 1, 1>>,
     <<412, 412, 1, 211>>, <<413, 413, 1, 213>>, <<415, 415, 1, 214>>,
     <<416, 420, 2, 1>>, <<422, 422, 1, 218>>, <<423, 423, 1, 1>>,
     <<425, 425, 1, 218>>, <<428, 428, 1, 1>>, <<430, 430, 1, 218>>,
     <<431, 431, 1, 1>>, <<433, 434, 1, 217>>, <<435, 437, 2, 1>>,
     <<439, 439, 1, 219>>, <<440, 440, 1, 1>>, <<444, 444, 1, 1>>,
     <<452, 452, 1, 2>>, <<453, 453, 1, 1>>, <<455, 455, 1, 2>>,
     <<456, 456, 1, 1>>, <<458, 458, 1, 2>>, <<459, 475, 2, 1>>,
     <<478, 494, 2, 1>>, <<497, 497, 1, 2>>, <<498, 500, 2, 1>>,
     <<502, 502, 1, -97>>, <<503, 503, 1, -56>>, <<504, 542, 2, 1>>,
     <<544, 544, 1, -130>>, <<546, 562, 2, 1>>, <<570, 570, 1, 10795>>,
     <<571, 571, 1, 1>>, <<573, 573, 1, -163>>, <<574, 574, 1, 10792>>,
     <<577, 577, 1, 1>>, <<579, 579, 1, -195>>, <<580, 580, 1, 69>>,
     <<581, 581, 1, 71>>, <<582, 590, 2, 1>>, <<880, 882, 2, 1>>,
     <<886, 886, 1, 1>>, <<895, 895, 1, 116>>, <<902, 902, 1, 38>>,
     <<904, 906, 1, 37>>, <<908, 908, 1, 64>>, <<910, 911, 1, 63>>,
     <<913, 929, 1, 32>>, <<931, 939, 1, 32>>, <<975, 975, 1, 8>>,
     <<984, 1006, 2, 1>>, <<1012, 1012, 1, -60>>, <<1015, 1015, 1, 1>>,
     <<1017, 1017, 1, -7>>, <<1018, 1018, 1, 1>>, <<1021, 1023, 1, -130>>,
     <<1024, 1039, 1, 80>>, <<1040, 1071, 1, 32>>, <<1120, 1152, 2, 1>>,
     <<1162, 1214, 2, 1>>, <<1216, 1216, 1, 15>>, <<1217, 1229, 2, 1>>,
     <<1232, 1326, 2, 1>>, <<1329, 1366, 1, 48>>, <<4256, 4293, 1, 7264>>,
     <<4295, 4295, 1, 7264>>, <<4301, 4301, 1, 7264>>, <<5024, 5103, 1, 38864>>,
     <<5104, 5109, 1, 8>>, <<7312, 7354, 1, -3008>>, <<7357, 7359, 1, -3008>>,
     <<7680, 7828, 2, 1>>, <<7838, 7838, 1, -7615>>, <<7840, 7934, 2, 1>>,
     <<7944, 7951, 1, -8>>, <<7960, 7965, 1, -8>>, <<7976, 7983, 1, -8>>,
     <<7992, 7999, 1, -8>>, <<8008, 8013, 1, -8>>, <<8025, 8031, 2, -8>>,
     <<8040, 8047, 1, -8>>, <<8072, 8079, 1, -8>>, <<8088, 8095, 1, -8>>,
     <<8104, 8111, 1, -8>>, <<8120, 8121, 1, -8>>, <<8122, 8123, 1, -74>>,
     <<8124, 8124, 1, -9>>, <<8136, 8139, 1, -86>>, <<8140, 8140, 1, -9>>,
     <<8152, 8153, 1, -8>>, <<8154, 8155, 1, -100>>, <<8168, 8169, 1, -8>>,
     <<8170, 8171, 1, -112>>, <<8172, 8172, 1, -7>>, <<8184, 8185, 1, -128>>,
     <<8186, 8187, 1, -126>>, <<8188, 8188, 1, -9>>, <<8486, 8486, 1, -7517>>,
     <<8490, 8490, 1, -8383>>, <<8491, 8491, 1, -8262>>, <<8498, 8498, 1, 28>>,
     <<8544, 8559, 1, 16>>, <<8579, 8579, 1, 1>>, <<9398, 9423, 1, 26>>,
     <<11264, 11311, 1, 48>>, <<11360, 11360, 1, 1>>, <<11362, 11362, 1, -10743>>,
     <<11363, 11363, 1, -3814>>, <<11364, 11364, 1, -10727>>, <<11367, 11371, 2, 1>>,
     <<11373, 11373, 1, -10780>>, <<11374, 11374, 1, -10749>>, <<11375, 11375, 1, -10783>>,
     <<11376, 11376, 1, -10782>>, <<11378, 11378, 1, 1>>, <<11381, 11381, 1, 1>>,
     <<11390, 11391, 1, -10815>>, <<11392, 11490, 2, 1>>, <<11499, 11501, 2, 1>>,
     <<11506, 11506, 1, 1>>, <<42560, 42604, 2, 1>>, <<42624, 42650, 2, 1>>,
     <<42786, 42798, 2, 1>>, <<42802, 42862, 2, 1>>, <<42873, 42875, 2, 1>>,
     <<42877, 42877, 1, -35332>>, <<42878, 42886, 2, 1>>, <<42891, 42891, 1, 1>>,
     <<42893, 42893, 1, -42280>>, <<42896, 42898, 2, 1>>, <<42902, 42920, 2, 1>>,
     <<42922, 42922, 1, -42308>>, <<42923, 42923, 1, -42319>>, <<42924, 42924, 1, -42315>>,
     <<42925, 42925, 1, -42305>>, <<42926, 42926, 1, -42308>>, <<42928, 42928, 1, -42258>>,
     <<42929, 42929, 1, -42282>>, <<42930, 42930, 1, -42261>>, <<42931, 42931, 1, 928>>,
     <<42932, 42946, 2, 1>>, <<42948, 42948, 1, -48>>, <<42949, 42949, 1, -42307>>,
     <<42950, 42950, 1, -35384>>, <<42951, 42953, 2, 1>>, <<42960, 42960, 1, 1>>,
     <<42966, 42968, 2, 1>>, <<42997, 42997, 1, 1>>, <<65313, 65338, 1, 32>>,
     <<66560, 66599, 1, 40>>, <<66736, 66771, 1, 40>>, <<66928, 66964, 2, 39>>,
     <<66929, 66937, 2, 39>>, <<66941, 66953, 2, 39>>, <<66957, 66961, 2, 39>>,
     <<66965, 66965, 1, 39>>, <<68736, 68786, 1, 64>>, <<71840, 71871, 1, 32>>,
     <<93760, 93791, 1, 32>>, <<125184, 125217, 1, 34>>}

\* the cased characters, <<first, last>>
CasedRanges ==
    {<<65, 90>>, <<97, 122>>, <<170, 170>>, <<181, 181>>, <<186, 186>>,
     <<192, 214>>, <<216, 246>>, <<248, 442>>, <<444, 447>>, <<452, 659>>,
     <<661, 696>>, <<704, 705>>, <<736, 740>>, <<837, 837>>, <<880, 883>>,
     <<886, 887>>, <<890, 893>>, <<895, 895>>, <<902, 902>>, <<904, 906>>,
     <<908, 908>>, <<910, 929>>, <<931, 1013>>, <<1015, 1153>>, <<1162, 1327>>,
     <<1329, 1366>>, <<1376, 1416>>, <<4256, 4293>>, <<4295, 4295>>, <<4301, 4301>>,
     <<4304, 4346>>, <<4349, 4351>>, <<5024, 5109>>, <<5112, 5117>>, <<7296, 7304>>,
     <<7312, 7354>>, <<7357, 7359>>, <<7424, 7615>>, <<7680, 7957>>, <<7960, 7965>>,
     <<7968, 8005>>, <<8008, 8013>>, <<8016, 8023>>, <<8025, 8025>>, <<8027, 8027>>,
     <<8029, 8029>>, <<8031, 8061>>, <<8064, 8116>>, <<8118, 8124>>, <<8126, 8126>>,
     <<8130, 8132>>, <<8134, 8140>>, <<8144, 8147>>, <<8150, 8155>>, <<8160, 8172>>,
     <<8178, 8180>>, <<8182, 8188>>, <<8305, 8305>>, <<8319, 8319>>, <<8336, 8348>>,
     <<8450, 8450>>, <<8455, 8455>>, <<8458, 8467>>, <<8469, 8469>>, <<8473, 8477>>,
     <<8484, 8484>>, <<8486, 8486>>, <<8488, 8488>>, <<8490, 8493>>, <<8495, 8500>>,
     <<8505, 8505>>, <<8508, 8511>>, <<8517, 8521>>, <<8526, 8526>>, <<8544, 8575>>,
     <<8579, 8580>>, <<9398, 9449>>, <<11264, 11492>>, <<11499, 11502>>, <<11506, 11507>>,
     <<11520, 11557>>, <<11559, 11559>>, <<11565, 11565>>, <<42560, 42605>>, <<42624, 42653>>,
     <<42786, 42887>>, <<42891, 42894>>, <<42896, 42954>>, <<42960, 42961>>, <<42963, 42963>>,
     <<42965, 42969>>, <<42997, 42998>>, <<43000, 43002>>, <<43824, 43866>>, <<43868, 43880>>,
     <<43888, 43967>>, <<64256, 64262>>, <<64275, 64279>>, <<65313, 65338>>, <<65345, 65370>>,
     <<66560, 66639>>, <<66736, 66771>>, <<66776, 66811>>, <<66928, 66938>>, <<66940, 66954>>,
     <<66956, 66962>>, <<66964, 66965>>, <<66967, 66977>>, <<66979, 66993>>, <<66995, 67001>>,
     <<67003, 67004>>, <<67456, 67456>>, <<67459, 67461>>, <<67463, 67504>>, <<67506, 67514>>,
     <<68736, 68786>>, <<68800, 68850>>, <<71840, 71903>>, <<93760, 93823>>, <<119808, 119892>>,
     <<119894, 119964>>, <<119966, 119967>>, <<119970, 119970>>, <<119973, 119974>>, <<119977, 119980>>,
     <<119982, 119993>>, <<119995, 119995>>, <<119997, 120003>>, <<120005, 120069>>, <<120071, 120074>>,
     <<120077, 120084>>, <<120086, 120092>>, <<120094, 120121>>, <<120123, 120126>>, <<120128, 120132>>,
     <<120134, 120134>>, <<120138, 120144>>, <<120146, 120485>>, <<120488, 120512>>, <<120514, 120538>>,
     <<120540, 120570>>, <<120572, 120596>>, <<120598, 120628>>, <<120630, 120654>>, <<120656, 120686>>,
     <<120688, 120712>>, <<120714, 120744>>, <<120746, 120770>>, <<120772, 120779>>, <<122624, 122633>>,
     <<122635, 122654>>, <<125184, 125251>>, <<127280, 127305>>, <<127312, 127337>>, <<127344, 127369>>}

\* the case-ignorable characters, <<first, last>>
CaseIgnorableRanges ==
    {<<39, 39>>, <<46, 46>>, <<58, 58>>, <<94, 94>>, <<96, 96>>,
     <<168, 168>>, <<173, 173>>, <<175, 175>>, <<180, 180>>, <<183, 184>>,
     <<688, 879>>, <<884, 885>>, <<890, 890>>, <<900, 901>>, <<903, 903>>,
     <<1155, 1161>>, <<1369, 1369>>, <<1375, 1375>>, <<1425, 1469>>, <<1471, 1471>>,
     <<1473, 1474>>, <<1476, 1477>>, <<1479, 1479>>, <<1524, 1524>>, <<1536, 1541>>,
     <<1552, 1562>>, <<1564, 1564>>, <<1600, 1600>>, <<1611, 1631>>, <<1648, 1648>>,
     <<1750, 1757>>, <<1759, 1768>>, <<1770, 1773>>, <<1807, 1807>>, <<1809, 1809>>,
     <<1840, 1866>>, <<1958, 1968>>, <<2027, 2037>>, <<2042, 2042>>, <<2045, 2045>>,
     <<2070, 2093>>, <<2137, 2139>>, <<2184, 2184>>, <<2192, 2193>>, <<2200, 2207>>,
     <<2249, 2306>>, <<2362, 2362>>, <<2364, 2364>>, <<2369, 2376>>, <<2381, 2381>>,
     <<2385, 2391>>, <<2402, 2403>>, <<2417, 2417>>, <<2433, 2433>>, <<2492, 2492>>,
     <<2497, 2500>>, <<2509, 2509>>, <<2530, 2531>>, <<2558, 2558>>, <<2561, 2562>>,
     <<2620, 2620>>, <<2625, 2626>>, <<2631, 2632>>, <<2635, 2637>>, <<2641, 2641>>,
     <<2672, 2673>>, <<2677, 2677>>, <<2689, 2690>>, <<2748, 2748>>, <<2753, 2757>>,
     <<2759, 2760>>, <<2765, 2765>>, <<2786, 2787>>, <<2810, 2815>>, <<2817, 2817>>,
     <<2876, 2876>>, <<2879, 2879>>, <<2881, 2884>>, <<2893, 2893>>, <<2901, 2902>>,
     <<2914, 2915>>, <<2946, 2946>>, <<3008, 3008>>, <<3021, 3021>>, <<3072, 3072>>,
     <<3076, 3076>>, <<3132, 3132>>, <<3134, 3136>>, <<3142, 3144>>, <<3146, 3149>>,
     <<3157, 3158>>, <<3170, 3171>>, <<3201, 3201>>, <<3260, 3260>>, <<3263, 3263>>,
     <<3270, 3270>>, <<3276, 3277>>, <<3298, 3299>>, <<3328, 3329>>, <<3387, 3388>>,
     <<3393, 3396>>, <<3405, 3405>>, <<3426, 3427>>, <<3457, 3457>>, <<3530, 3530>>,
     <<3538, 3540>>, <<3542, 3542>>, <<3633, 3633>>, <<3636, 3642>>, <<3654, 3662>>,
     <<3761, 3761>>, <<3764, 3772>>, <<3782, 3782>>, <<3784, 3789>>, <<3864, 3865>>,
     <<3893, 3893>>, <<3895, 3895>>, <<3897, 3897>>, <<3953, 3966>>, <<3968, 3972>>,
     <<3974, 3975>>, <<3981, 3991>>, <<3993, 4028>>, <<4038, 4038>>, <<4141, 4144>>,
     <<4146, 4151>>, <<4153, 4154>>, <<4157, 4158>>, <<4184, 4185>>, <<4190, 4192>>,
     <<4209, 4212>>, <<4226, 4226>>, <<4229, 4230>>, <<4237, 4237>>, <<4253, 4253>>,
     <<4348, 4348>>, <<4957, 4959>>, <<5906, 5908>>, <<5938, 5939>>, <<5970, 5971>>,
     <<6002, 6003>>, <<6068, 6069>>, <<6071, 6077>>, <<6086, 6086>>, <<6089, 6099>>,
     <<6103, 6103>>, <<6109, 6109>>, <<6155, 6159>>, <<6211, 6211>>, <<6277, 6278>>,
     <<6313, 6313>>, <<6432, 6434>>, <<6439, 6440>>, <<6450, 6450>>, <<6457, 6459>>,
     <<6679, 6680>>, <<6683, 6683>>, <<6742, 6742>>, <<6744, 6750>>, <<6752, 6752>>,
     <<6754, 6754>>, <<6757, 6764>>, <<6771, 6780>>, <<6783, 6783>>, <<6823, 6823>>,
     <<6832, 6862>>, <<6912, 6915>>, <<6964, 6964>>, <<6966, 6970>>, <<6972, 6972>>,
     <<6978, 6978>>, <<7019, 7027>>, <<7040, 7041>>, <<7074, 7077>>, <<7080, 7081>>,
     <<7083, 7085>>, <<7142, 7142>>, <<7144, 7145>>, <<7149, 7149>>, <<7151, 7153>>,
     <<7212, 7219>>, <<7222, 7223>>, <<7288, 7293>>, <<7376, 7378>>, <<7380, 7392>>,
     <<7394, 7400>>, <<7405, 7405>>, <<7412, 7412>>, <<7416, 7417>>, <<7468, 7530>>,
     <<7544, 7544>>, <<7579, 7679>>, <<8125, 8125>>, <<8127, 8129>>, <<8141, 8143>>,
     <<8157, 8159>>, <<8173, 8175>>, <<8189, 8190>>, <<8203, 8207>>, <<8216, 8217>>,
     <<8228, 8228>>, <<8231, 8231>>, <<8234, 8238>>, <<8288, 8292>>, <<8294, 8303>>,
     <<8305, 8305>>, <<8319, 8319>>, <<8336, 8348>>, <<8400, 8432>>, <<11388, 11389>>,
     <<11503, 11505>>, <<11631, 11631>>, <<11647, 11647>>, <<11744, 11775>>, <<11823, 11823>>,
     <<12293, 12293>>, <<12330, 12333>>, <<12337, 12341>>, <<12347, 12347>>, <<12441, 12446>>,
     <<12540, 12542>>, <<40981, 40981>>, <<42232, 42237>>, <<42508, 42508>>, <<42607, 42610>>,
     <<42612, 42621>>, <<42623, 42623>>, <<42652, 42655>>, <<42736, 42737>>, <<42752, 42785>>,
     <<42864, 42864>>, <<42888, 42890>>, <<42994, 42996>>, <<43000, 43001>>, <<43010, 43010>>,
     <<43014, 43014>>, <<43019, 43019>>, <<43045, 43046>>, <<43052, 43052>>, <<43204, 43205>>,
     <<43232, 43249>>, <<43263, 43263>>, <<43302, 43309>>, <<43335, 43345>>, <<43392, 43394>>,
     <<43443, 43443>>, <<43446, 43449>>, <<43452, 43453>>, <<43471, 43471>>, <<43493, 43494>>,
     <<43561, 43566>>, <<43569, 43570>>, <<43573, 43574>>, <<43587, 43587>>, <<43596, 43596>>,
     <<43632, 43632>>, <<43644, 43644>>, <<43696, 43696>>, <<43698, 43700>>, <<43703, 43704>>,
     <<43710, 43711>>, <<43713, 43713>>, <<43741, 43741>>, <<43756, 43757>>, <<43763, 43764>>,
     <<43766, 43766>>, <<43867, 43871>>, <<43881, 43883>>, <<44005, 44005>>, <<44008, 44008>>,
     <<44013, 44013>>, <<64286, 64286>>, <<64434, 64450>>, <<65024, 65039>>, <<65043, 65043>>,
     <<65056, 65071>>, <<65106, 65106>>, <<65109, 65109>>, <<65279, 65279>>, <<65287, 65287>>,
     <<65294, 65294>>, <<65306, 65306>>, <<65342, 65342>>, <<65344, 65344>>, <<65392, 65392>>,
     <<65438, 65439>>, <<65507, 65507>>, <<65529, 65531>>, <<66045, 66045>>, <<66272, 66272>>,
     <<66422, 66426>>, <<67456, 67461>>, <<67463, 67504>>, <<67506, 67514>>, <<68097, 68099>>,
     <<68101, 68102>>, <<68108, 68111>>, <<68152, 68154>>, <<68159, 68159>>, <<68325, 68326>>,
     <<68900, 68903>>, <<69291, 69292>>, <<69446, 69456>>, <<69506, 69509>>, <<69633, 69633>>,
     <<69688, 69702>>, <<69744, 69744>>, <<69747, 69748>>, <<69759, 69761>>, <<69811, 69814>>,
     <<69817, 69818>>, <<69821, 69821>>, <<69826, 69826>>, <<69837, 69837>>, <<69888, 69890>>,
     <<69927, 69931>>, <<69933, 69940>>, <<70003, 70003>>, <<70016, 70017>>, <<70070, 70078>>,
     <<70089, 70092>>, <<70095, 70095>>, <<70191, 70193>>, <<70196, 70196>>, <<70198, 70199>>,
     <<70206, 70206>>, <<70367, 70367>>, <<70371, 70378>>, <<70400, 70401>>, <<70459, 70460>>,
     <<70464, 70464>>, <<70502, 70508>>, <<70512, 70516>>, <<70712, 70719>>, <<70722, 70724>>,
     <<70726, 70726>>, <<70750, 70750>>, <<70835, 70840>>, <<70842, 70842>>, <<70847, 70848>>,
     <<70850, 70851>>, <<71090, 71093>>, <<71100, 71101>>, <<71103, 71104>>, <<71132, 71133>>,
     <<71219, 71226>>, <<71229, 71229>>, <<71231, 71232>>, <<71339, 71339>>, <<71341, 71341>>,
     <<71344, 71349>>, <<71351, 71351>>, <<71453, 71455>>, <<71458, 71461>>, <<71463, 71467>>,
     <<71727, 71735>>, <<71737, 71738>>, <<71995, 71996>>, <<71998, 71998>>, <<72003, 72003>>,
     <<72148, 72151>>, <<72154, 72155>>, <<72160, 72160>>, <<72193, 72202>>, <<72243, 72248>>,
     <<72251, 72254>>, <<72263, 72263>>, <<72273, 72278>>, <<72281, 72283>>, <<72330, 72342>>,
     <<72344, 72345>>, <<72752, 72758>>, <<72760, 72765>>, <<72767, 72767>>, <<72850, 72871>>,
     <<72874, 72880>>, <<72882, 72883>>, <<72885, 72886>>, <<73009, 73014>>, <<73018, 73018>>,
     <<73020, 73021>>, <<73023, 73029>>, <<73031, 73031>>, <<73104, 73105>>, <<73109, 73109>>,
     <<73111, 73111>>, <<73459, 73460>>, <<78896, 78904>>, <<92912, 92916>>, <<92976, 92982>>,
     <<92992, 92995>>, <<94031, 94031>>, <<94095, 94111>>, <<94176, 94177>>, <<94179, 94180>>,
     <<110576, 110579>>, <<110581, 110587>>, <<110589, 110590>>, <<113821, 113822>>, <<113824, 113827>>,
     <<118528, 118573>>, <<118576, 118598>>, <<119143, 119145>>, <<119155, 119170>>, <<119173, 119179>>,
     <<119210, 119213>>, <<119362, 119364>>, <<121344, 121398>>, <<121403, 121452>>, <<121461, 121461>>,
     <<121476, 121476>>, <<121499, 121503>>, <<121505, 121519>>, <<122880, 122886>>, <<122888, 122904>>,
     <<122907, 122913>>, <<122915, 122916>>, <<122918, 122922>>, <<123184, 123197>>, <<123566, 123566>>,
     <<123628, 123631>>, <<125136, 125142>>, <<125252, 125259>>, <<127995, 127999>>, <<917505, 917505>>,
     <<917536, 917631>>, <<917760, 917999>>}

\* c is one of the characters of the ranges
Within(c, ranges) == \E r \in ranges : r[1] <= c /\ c <= r[2]

\* the lowercase mapping of one character; of the ASCII characters the
\* capital letters alone have one
LowerChar(c) ==
    IF c < 128 THEN (IF 65 <= c /\ c <= 90 THEN c + 32 ELSE c)
    ELSE IF \E r \in LowerRanges : r[1] <= c /\ c <= r[2] /\ (c - r[1]) % r[3] = 0
    THEN c + (CHOOSE r \in LowerRanges :
                 r[1] <= c /\ c <= r[2] /\ (c - r[1]) % r[3] = 0)[4]
    ELSE c

\* text[i], a capital sigma, ends a word: before it, skipping
\* case-ignorable characters, stands a cased character, and after it,
\* skipping them again, none
FinalSigma(text, i) ==
    /\ \E j \in 1..(i - 1) :
          /\ ~Within(text[j], CaseIgnorableRanges) /\ Within(text[j], CasedRanges)
          /\ \A k \in (j + 1)..(i - 1) : Within(text[k], CaseIgnorableRanges)
    /\ ~\E j \in (i + 1)..Len(text) :
          /\ ~Within(text[j], CaseIgnorableRanges) /\ Within(text[j], CasedRanges)
          /\ \A k \in (i + 1)..(j - 1) : Within(text[k], CaseIgnorableRanges)

\* what lower() puts for text[i]
LowerAt(text, i) ==
    IF text[i] = 304 THEN <<105, 775>>
    ELSE IF text[i] = 931 THEN (IF FinalSigma(text, i) THEN <<962>> ELSE <<963>>)
    ELSE <<LowerChar(text[i])>>

RECURSIVE LowerFrom(_, _)
LowerFrom(text, i) ==
    IF i > Len(text) THEN <<>> ELSE LowerAt(text, i) \o LowerFrom(text, i + 1)

\* str.lower()
lower(text) == LowerFrom(text, 1)

\* sub in text
Contains(text, sub) ==
    \E i \in 0..(Len(text) - Len(sub)) :
        \A j \in 1..Len(sub) : text[i + j] = sub[j]

KwRevenue == <<114, 101, 118, 101, 110, 117, 101>>  \* "revenue"
KwDrop == <<100, 114, 111, 112>>  \* "drop"
KwReorder == <<114, 101, 111, 114, 100, 101, 114>>  \* "reorder"
KwStock == <<115, 116, 111, 99, 107>>  \* "stock"
KwTrend == <<116, 114, 101, 110, 100>>  \* "trend"
KwTrending == <<116, 114, 101, 110, 100, 105, 110, 103>>  \* "trending"
KwAnomal == <<97, 110, 111, 109, 97, 108>>  \* "anomal"

(***************************************************************************)
(* build_metrics (main.py:203-231).  A value is the number the format      *)
(* spec prints (,.0f of an integer sum).                                   *)
(***************************************************************************)
Metric(label, name, value) == [label |-> label, name |-> name, value |-> value]

\* main.py:210
total_expenses(frame) ==
    IF "expenses" \in frame.columns THEN SumCol(frame.rows, "expenses") ELSE 0

TotalRevenueMetric(frame) ==
    IF "revenue" \in frame.columns
    THEN <<Metric("Total revenue", NaN, SumCol(frame.rows, "revenue"))>> ELSE <<>>

TotalExpensesMetric(frame) == <<Metric("Total expenses", NaN, total_expenses(frame))>>

NetIncomeMetric(frame) ==
    IF "revenue" \in frame.columns
    THEN <<Metric("Net income", NaN, SumCol(frame.rows, "revenue") - total_expenses(frame))>>
    ELSE <<>>

UnitsSoldMetric(frame) ==
    IF "units_sold" \in frame.columns
    THEN <<Metric("Units sold", NaN, SumCol(frame.rows, "units_sold"))>> ELSE <<>>

\* df.groupby("item")["revenue"].sum()
ItemRevenue(rows, items) ==
    [j \in 1..Len(items) |->
        [item |-> items[j], revenue |-> ItemSum(rows, items[j], "revenue")]]

\* main.py:222
top_item(frame, ties) ==
    sort_values(ItemRevenue(frame.rows, SortedSeq(ItemsOf(frame.rows))), "revenue", ties)

TopItemMetric(top) ==
    IF top # <<>> THEN <<Metric("Top item", <<top[1].item>>, top[1].revenue)>> ELSE <<>>

\* main.py:206-219
MetricsBeforeTopItem(frame) ==
    TotalRevenueMetric(frame) \o TotalExpensesMetric(frame) \o NetIncomeMetric(frame)
        \o UnitsSoldMetric(frame)

\* groupby("item") raises on a table with two columns named item, before
\* ["revenue"] is looked up
build_metrics(frame, ties) ==
    IF "item" \notin frame.columns THEN Ok(MetricsBeforeTopItem(frame))
    ELSE IF "item" \in frame.dups THEN Raise("ValueError")
    ELSE IF "revenue" \notin frame.columns THEN Raise("KeyError")
    ELSE Ok(MetricsBeforeTopItem(frame) \o TopItemMetric(top_item(frame, ties)))

(***************************************************************************)
(* build_evidence (main.py:234-271), build_charts (main.py:274-289)        *)
(***************************************************************************)

\* a panel for a derived table that is not empty
PanelIf(title, rows) ==
    IF rows # <<>> THEN <<[title |-> title, rows |-> rows]>> ELSE <<>>

\* .assign(date=lambda d: d["date"].dt.date.astype(str)): the rows with the
\* calendar day of their timestamp
DatesOf(rows) == [j \in 1..Len(rows) |-> [rows[j] EXCEPT !.date = DateOf(@)]]

\* (a week is the day of its start already)
Evidence(weekly, trending, anomalies) ==
    IF ~weekly.ok THEN weekly
    ELSE IF ~trending.ok THEN trending
    ELSE IF ~anomalies.ok THEN anomalies
    ELSE Ok(PanelIf("Weekly revenue trend", weekly.val)
            \o PanelIf("Trending items (last 7 days)", trending.val)
            \o PanelIf("Revenue anomalies", DatesOf(anomalies.val)))

build_evidence(frame, ties) ==
    Evidence(compute_weekly_revenue(frame, ties), compute_trending_items(frame, ties),
             compute_anomalies(frame, ties))

Charts(daily) ==
    IF ~daily.ok THEN daily ELSE Ok(PanelIf("Daily financials", DatesOf(daily.val)))

build_charts(frame, ties) == Charts(compute_daily_financials(frame, ties))

(***************************************************************************)
(* build_actions (main.py:292-318).  An action is the template and the     *)
(* numbers it prints: the inventory with .0f, the rate and the drop with   *)
(* .1f (in tenths).  A negative value that rounds to zero prints with its  *)
(* sign, "-0" or "-0.0": minus names the fields printed so.                *)
(***************************************************************************)
Action(kind, name, x, y) ==
    [kind |-> kind, name |-> name, x |-> x, y |-> y, minus |-> {}]

\* the numbers of a reorder line that are negative and print as zero
ReorderMinus(row) ==
    (IF row.inv_n < 0 /\ RoundDiv(row.inv_n, row.inv_d) = 0 THEN {"x"} ELSE {})
    \cup (IF row.avg_n < 0 /\ MeanTenths(row.avg_n, row.avg_d) = 0 THEN {"y"} ELSE {})

\* what `or` passes over: None, got for a column the row lacks, and the
\* number 0 (a name that is a string is never empty: pd.read_csv reads an
\* empty field as missing, and a group key is never missing)
Falsy(cell) == IsNA(cell) \/ cell = <<0>>

\* row.get("item") or row.get("sku") or "Item"
DisplayName(row) ==
    IF ~Falsy(row.item) THEN [col |-> "item", id |-> row.item[1]]
    ELSE IF ~Falsy(row.sku) THEN [col |-> "sku", id |-> row.sku[1]]
    ELSE [col |-> "Item", id |-> 0]

ReorderAction(row) ==
    [Action("reorder", DisplayName(row),
            RoundDiv(row.inv_n, row.inv_d), MeanTenths(row.avg_n, row.avg_d))
     EXCEPT !.minus = ReorderMinus(row)]

ReorderActions(top) == [j \in 1..Len(top) |-> ReorderAction(top[j])]

\* f"{(prev - last) / prev * 100:.1f}" (main.py:310-312, 328-330), in tenths
\* of a percent.  prev - last is exact; a rise is the drop of the same
\* size with the sign changed.
RECURSIVE DropTenths(_, _)
DropTenths(prev, last) ==
    IF last > prev THEN -DropTenths(prev, 2 * prev - last)
    ELSE IF (2000 * (prev - last)) % prev = 0 /\ ((2000 * (prev - last)) \div prev) % 2 = 1
    THEN DropTie((2000 * (prev - last)) \div prev,
                 3 - FivesIn((2000 * (prev - last)) \div prev),
                 Log2Floor(prev - last, prev))
    ELSE RoundDiv(1000 * (prev - last), prev)

NoName == [col |-> "none", id |-> 0]

\* Faulty variant of DropAction: an unchanged revenue counts as a drop.  C8
\* must tell it from DropAction.
DropActionOnEqual(prev, last) ==
    IF prev > 0 /\ last <= prev
    THEN <<Action("revenue_drop", NoName, DropTenths(prev, last), 0)>> ELSE <<>>

\* main.py:306-313
DropAction(prev, last) ==
    IF prev > 0 /\ last < prev
    THEN <<Action("revenue_drop", NoName, DropTenths(prev, last), 0)>> ELSE <<>>

DropOf(weekly) ==
    IF Len(weekly) >= 2
    THEN DropAction(weekly[Len(weekly) - 1].revenue, weekly[Len(weekly)].revenue)
    ELSE <<>>

\* main.py:304-313
DropActions(frame, ties) ==
    IF "revenue" \in frame.columns /\ "date" \in frame.columns
    THEN DropOf(compute_weekly_revenue(frame, ties).val)
    ELSE <<>>

FallbackAction == Action("fallback", NoName, 0, 0)

\* main.py:315-316
OrFallback(actions) == IF actions = <<>> THEN <<FallbackAction>> ELSE actions

Actions(frame, reorder, ties) ==
    IF ~reorder.ok THEN reorder
    ELSE Ok(OrFallback(ReorderActions(head(reorder.val, ActionsHead))
                       \o DropActions(frame, ties)))

build_actions(frame, ties) == Actions(frame, compute_reorder_list(frame, ties), ties)

(***************************************************************************)
(* rule_based_answer (main.py:321-364)                                     *)
(***************************************************************************)
Answer(kind, name, x, y, z) ==
    [kind |-> kind, name |-> name, x |-> x, y |-> y, z |-> z, minus |-> {}]

\* main.py:325-332
RevenueFell(prev, last) ==
    Ok([Answer("revenue_fell", NoName, DropTenths(prev, last), last, prev)
        EXCEPT !.minus = IF last > prev /\ DropTenths(prev, last) = 0
                         THEN {"x"} ELSE {}])

\* main.py:335-343
ReorderAnswer(reorder) ==
    IF ~reorder.ok THEN reorder
    ELSE IF reorder.val = <<>> THEN Ok(Answer("inventory_stable", NoName, 0, 0, 0))
    ELSE Ok([Answer("urgent_reorder", DisplayName(reorder.val[1]),
                    RoundDiv(reorder.val[1].inv_n, reorder.val[1].inv_d),
                    MeanTenths(reorder.val[1].avg_n, reorder.val[1].avg_d), 0)
             EXCEPT !.minus = ReorderMinus(reorder.val[1])])

\* main.py:346-352
TrendAnswer(trending) ==
    IF ~trending.ok THEN trending
    ELSE IF trending.val = <<>> THEN Ok(Answer("no_trend", NoName, 0, 0, 0))
    ELSE Ok(Answer("trending_up", [col |-> "item", id |-> trending.val[1].item],
                   trending.val[1].change, 0, 0))

\* main.py:355-362
LastAnomaly(last) ==
    Ok(Answer("anomaly", NoName, DateOf(last.date), last.revenue, last.z_tenths))

AnomalyAnswer(anomalies) ==
    IF ~anomalies.ok THEN anomalies
    ELSE IF anomalies.val = <<>> THEN Ok(Answer("no_anomalies", NoName, 0, 0, 0))
    ELSE LastAnomaly(anomalies.val[Len(anomalies.val)])

\* main.py:334-364
AfterRevenueRule(q, frame, ties) ==
    IF Contains(q, KwReorder) \/ Contains(q, KwStock)
    THEN ReorderAnswer(compute_reorder_list(frame, ties))
    ELSE IF Contains(q, KwTrend) \/ Contains(q, KwTrending)
    THEN TrendAnswer(compute_trending_items(frame, ties))
    ELSE IF Contains(q, KwAnomal)
    THEN AnomalyAnswer(compute_anomalies(frame, ties))
    ELSE Ok(Answer("quick_read", NoName, 0, 0, 0))

\* main.py:324-327
RevenueRule(q, weekly) ==
    /\ Contains(q, KwRevenue)
    /\ Contains(q, KwDrop)
    /\ Len(weekly) >= 2
    /\ weekly[Len(weekly) - 1].revenue > 0

Rules(q, weekly, frame, ties) ==
    IF ~weekly.ok THEN weekly
    ELSE IF RevenueRule(q, weekly.val)
    THEN RevenueFell(weekly.val[Len(weekly.val) - 1].revenue,
                     weekly.val[Len(weekly.val)].revenue)
    ELSE AfterRevenueRule(q, frame, ties)

rule_based_answer(question, frame, ties) ==
    Rules(lower(question), compute_weekly_revenue(frame, ties), frame, ties)

(***************************************************************************)
(* llm_answer (main.py:367-394).  env = [api_key, openai]: whether         *)
(* OPENAI_API_KEY is set and the client library was imported; remote is    *)
(* what client.responses.create does: "ok" returns text, "error" raises.   *)
(***************************************************************************)
llm_answer(question, frame, metrics, actions, env, remote, ties) ==
    IF ~env.api_key \/ ~env.openai THEN rule_based_answer(question, frame, ties)
    ELSE IF remote = "error" THEN Raise("APIError")
    ELSE Ok(Answer("output_text", NoName, 0, 0, 0))

(***************************************************************************)
(* The names of the expected columns, as df.columns spells them.           *)
(***************************************************************************)
Spelling ==
    [c \in EXPECTED_COLUMNS |->
        CASE c = "date" -> <<100, 97, 116, 101>>
          [] c = "item" -> <<105, 116, 101, 109>>
          [] c = "sku" -> <<115, 107, 117>>
          [] c = "units_sold" -> <<117, 110, 105, 116, 115, 95, 115, 111, 108, 100>>
          [] c = "revenue" -> <<114, 101, 118, 101, 110, 117, 101>>
          [] c = "inventory_on_hand" ->
                <<105, 110, 118, 101, 110, 116, 111, 114, 121, 95, 111, 110, 95, 104, 97, 110, 100>>
          [] c = "category" -> <<99, 97, 116, 101, 103, 111, 114, 121>>
          [] OTHER -> <<101, 120, 112, 101, 110, 115, 101, 115>>]  \* "expenses"

(***************************************************************************)
(* Input tables of the engine specification: Table(n, step, k, pat, cols)  *)
(* has n rows, row i dated midnight of day FirstDay + (i-1)*step, items    *)
(* cycling through the numbers 0..k-1 and skus through 0 and 10, and the   *)
(* revenue shape pat.  "dirty" tables carry missing cells, zero and        *)
(* negative revenue, returns (negative units_sold) and negative stock;     *)
(* "slip" tables carry the values whose one-decimal print is halfway       *)
(* between two tenths: weekly revenue 2000 then 1999, a mean demand of     *)
(* 7/20, a mean stock just below zero; "stamp" tables are dated in         *)
(* nanoseconds around the epoch, (i-1)*step - 2, as a date column of bare  *)
(* numbers is read.  No engine table has two columns of one name.          *)
(***************************************************************************)
Patterns == {"flat", "spike", "ramp", "fall", "slip", "dirty", "stamp"}
Steps == {0, 1, 3, 7}
ItemCounts == {1, 3, MaxItems}
RowCounts == (0..SmallRows) \cup {8, 15, 20, MaxRows}
AllColumns == EXPECTED_COLUMNS
MainColumnSets ==
    {AllColumns, AllColumns \ {"expenses"}, AllColumns \ {"item", "category"},
     {"date", "revenue"}}
FirstDay == 2
ColumnOrder ==
    <<"date", "item", "sku", "category", "units_sold", "revenue", "inventory_on_hand",
      "expenses">>

\* daily revenue at the anomaly threshold: in "edge" the first day has
\* z = 2.0499999956, printed 2.0; in "brink" the first day has
\* z = 1.9999999996, no anomaly
ThresholdPatterns == {"edge", "brink"}
ThresholdRevenue(pat) ==
    IF pat = "edge" THEN <<1402, 0, 358, 200, 13, 556, 732>>
    ELSE <<5364, 3211, 1222, 3950, 3747, 2480, 1687, 2636, 2176, 0, 1882>>

GenCell(c, i, step, k, pat) ==
    LET dirty == pat = "dirty"
        item == (i - 1) % k
    IN  CASE c = "date" ->
                IF dirty /\ i % 4 = 2 THEN NaT
                ELSE IF pat = "stamp" THEN <<EpochDay, (i - 1) * step - 2>>
                ELSE <<FirstDay + (i - 1) * step, 0>>
          [] c = "item" -> IF dirty /\ i % 5 = 0 THEN NaN ELSE <<item>>
          [] c = "sku" ->
                IF dirty THEN (IF i % 7 = 0 THEN NaN ELSE <<10 * (i % 2)>>)
                ELSE <<10 * ((i - 1) % 2)>>
          [] c = "category" -> <<1 + ((item + 1) % 2)>>
          [] c = "units_sold" ->
                IF dirty THEN (IF i % 3 = 0 THEN NaN ELSE <<((3 * i + item + 1) % 7) - 3>>)
                ELSE IF pat = "slip" THEN (IF i % 3 = 1 THEN <<1>> ELSE <<0>>)
                ELSE <<(3 * i + item + 1) % 7>>
          [] c = "revenue" ->
                CASE pat = "flat" -> <<100>>
                  [] pat = "spike" ->
                        IF i % 4 = 0
                        THEN (IF (i \div 4) % 2 = 1 THEN <<160>> ELSE <<40>>)
                        ELSE <<100>>
                  [] pat \in {"ramp", "stamp"} -> <<10 * i>>
                  [] pat = "fall" -> <<1000 \div i>>
                  [] pat = "slip" ->
                        IF i <= 5 THEN <<400>>
                        ELSE IF i <= 7 THEN <<666>>
                        ELSE IF i = 8 THEN <<667>> ELSE <<100>>
                  [] pat \in ThresholdPatterns -> <<ThresholdRevenue(pat)[i]>>
                  [] OTHER -> IF i % 6 = 0 THEN NaN ELSE <<((37 * i) % 5) * 25 - 25>>
          [] c = "inventory_on_hand" ->
                IF dirty THEN (IF i % 4 = 1 THEN NaN ELSE <<((5 * i) % 11) - 2>>)
                ELSE IF pat = "slip" THEN (IF i = 1 THEN <<-1>> ELSE <<0>>)
                ELSE <<(5 * i) % 11>>
          [] OTHER -> IF dirty /\ i % 5 = 0 THEN NaN ELSE <<(7 * i) % 40>>

\* the columns cols in the order of the file
Ordered(cols) == SelectSeq(ColumnOrder, LAMBDA c : c \in cols)

Table(n, step, k, pat, cols) ==
    [columns |-> cols,
     rows |-> [i \in 1..n |-> [c \in cols |-> GenCell(c, i, step, k, pat)]],
     dups |-> {},
     header |-> [j \in 1..Len(Ordered(cols)) |-> Spelling[Ordered(cols)[j]]],
     cells |-> [i \in 1..n |->
                  [j \in 1..Len(Ordered(cols)) |->
                      GenCell(Ordered(cols)[j], i, step, k, pat)]]]

\* every column subset on small tables; the main column sets on all tables
\* and on the threshold tables
IsEngineTable(frame) ==
    \/ \E n \in 0..SmallRows, pat \in {"fall", "dirty"}, cols \in SUBSET EXPECTED_COLUMNS :
            frame = Table(n, 7, 3, pat, cols)
    \/ \E pat \in ThresholdPatterns, step \in Steps, k \in ItemCounts,
           cols \in MainColumnSets :
            frame = Table(Len(ThresholdRevenue(pat)), step, k, pat, cols)
    \/ \E n \in RowCounts, step \in Steps, k \in ItemCounts, pat \in Patterns,
           cols \in MainColumnSets :
            frame = Table(n, step, k, pat, cols)

Questions ==
    {<<82, 101, 118, 101, 110, 117, 101, 32, 68, 82, 79, 80, 63>>,  \* "Revenue DROP?"
     <<114, 101, 118, 101, 110, 117, 101, 32, 100, 114, 111, 112, 32, 114, 101, 115, 116, 111, 99, 107>>,
        \* "revenue drop restock"
     <<65, 110, 121, 32, 114, 101, 111, 114, 100, 101, 114, 32, 99, 111, 110, 99, 101, 114, 110, 115, 63>>,
        \* "Any reorder concerns?"
     <<83, 116, 111, 99, 107, 32, 84, 114, 101, 110, 100, 115>>,  \* "Stock Trends"
     <<83, 84, 79, 67, 8490>>,  \* "STOC" and the Kelvin sign
     <<931, 913, 931, 32, 83, 116, 111, 99, 107>>,  \* sigma alpha sigma, " Stock"
     <<304, 115, 116, 111, 99, 107>>,  \* I with dot above, "stock"
     <<116, 114, 101, 110, 100, 105, 110, 103, 32, 97, 110, 111, 109, 97, 108, 121>>,
        \* "trending anomaly"
     <<65, 110, 111, 109, 97, 108, 105, 101, 115, 63>>,  \* "Anomalies?"
     <<114, 101, 118, 101, 110, 117, 101>>,  \* "revenue"
     <<104, 101, 108, 108, 111>>}  \* "hello"

(***************************************************************************)
(* Initial server state.                                                   *)
(***************************************************************************)
NoCall == [fn |-> "none", arg |-> <<>>, res |-> Ok(<<>>)]
NoFrame == [columns |-> {}, rows |-> <<>>, dups |-> {}, header |-> <<>>, cells |-> <<>>]

NoResponse == [req |-> "none", status |-> 0]

ServerIdle ==
    /\ DATASETS = <<>>
    /\ UPLOAD_INDEX = <<>>
    /\ INDEX_FILE = <<>>
    /\ disk = <<>>
    /\ uuids = 0
    /\ uploads = {}
    /\ response = NoResponse
    /\ issued = <<>>
    /\ llm = [api_key |-> FALSE, openai |-> FALSE]

(***************************************************************************)
(* Engine specification: a normalized table, and each function of the      *)
(* analytics engine applied to it.                                         *)
(***************************************************************************)
EngineInit ==
    /\ IsEngineTable(df)
    /\ sortTies \in {"first", "last"}
    /\ out = NoCall
    /\ ServerIdle

Call(fn, arg, res) ==
    /\ out = NoCall
    /\ out' = [fn |-> fn, arg |-> arg, res |-> res]
    /\ UNCHANGED <<df, sortTies>>
    /\ UNCHANGED serverVars

CallWeeklyRevenue ==
    Call("compute_weekly_revenue", <<>>, compute_weekly_revenue(df, sortTies))
CallDailyFinancials ==
    Call("compute_daily_financials", <<>>, compute_daily_financials(df, sortTies))
CallTrendingItems ==
    Call("compute_trending_items", <<>>, compute_trending_items(df, sortTies))
CallReorderList ==
    Call("compute_reorder_list", <<>>, compute_reorder_list(df, sortTies))
CallAnomalies ==
    Call("compute_anomalies", <<>>, compute_anomalies(df, sortTies))
CallBuildMetrics ==
    Call("build_metrics", <<>>, build_metrics(df, sortTies))
CallBuildEvidence ==
    Call("build_evidence", <<>>, build_evidence(df, sortTies))
CallBuildCharts ==
    Call("build_charts", <<>>, build_charts(df, sortTies))
CallBuildActions ==
    Call("build_actions", <<>>, build_actions(df, sortTies))
CallRuleBasedAnswer ==
    \E question \in Questions :
        Call("rule_based_answer", question, rule_based_answer(question, df, sortTies))

EngineNext ==
    \/ CallWeeklyRevenue
    \/ CallDailyFinancials
    \/ CallTrendingItems
    \/ CallReorderList
    \/ CallAnomalies
    \/ CallBuildMetrics
    \/ CallBuildEvidence
    \/ CallBuildCharts
    \/ CallBuildActions
    \/ CallRuleBasedAnswer

EngineSpec == EngineInit /\ [][EngineNext]_vars

(***************************************************************************)
(* Raw files.  A raw cell, as pd.read_csv leaves it, is empty, a number    *)
(* (in a column of numbers only) or a string; string k carries what        *)
(* pd.to_datetime and pd.to_numeric read in it, nothing unless said.       *)
(***************************************************************************)
Num(n) == [kind |-> "num", v |-> n, day |-> NaT, num |-> NaN]
Str(k, day, num) == [kind |-> "str", v |-> k, day |-> day, num |-> num]
Name(k) == Str(k, NaT, NaN)
Day(k, d) == Str(k, <<d, 0>>, NaN)
Empty == [kind |-> "empty", v |-> 0, day |-> NaT, num |-> NaN]

\* the characters str.strip() removes (str.isspace)
Whitespace ==
    (9..13) \cup (28..32) \cup {133, 160, 5760} \cup (8192..8202)
        \cup {8232, 8233, 8239, 8287, 12288}

RECURSIVE strip(_)
strip(text) ==
    IF text # <<>> /\ text[1] \in Whitespace THEN strip(Tail(text))
    ELSE IF text # <<>> /\ text[Len(text)] \in Whitespace
    THEN strip(SubSeq(text, 1, Len(text) - 1))
    ELSE text

\* pd.to_datetime(errors="coerce"): a number is that many nanoseconds from
\* the epoch
to_datetime(cell) == IF cell.kind = "num" THEN <<EpochDay, cell.v>> ELSE cell.day

\* pd.to_numeric(errors="coerce")
to_numeric(cell) == IF cell.kind = "num" THEN <<cell.v>> ELSE cell.num

NumericColumns == {"units_sold", "revenue", "inventory_on_hand", "expenses"}

\* main.py:74
StripLower(header) == [j \in 1..Len(header) |-> lower(strip(header[j]))]

\* the positions of the columns named c
Named(header, c) == {j \in 1..Len(header) : header[j] = Spelling[c]}

\* main.py:76-83, for a cell of the column at position j
Coerce(header, j, cell) ==
    IF j \in Named(header, "date") THEN to_datetime(cell)
    ELSE IF \E c \in NumericColumns : j \in Named(header, c) THEN to_numeric(cell)
    ELSE IF cell.kind = "empty" THEN NaN ELSE <<cell.v>>

\* the table under the header `header`; of two columns of one name the
\* first stands for the name in `rows`
Normalized(raw, header) ==
    [columns |-> {c \in EXPECTED_COLUMNS : Named(header, c) # {}},
     rows |-> [i \in 1..Len(raw.rows) |->
                  [c \in {x \in EXPECTED_COLUMNS : Named(header, x) # {}} |->
                      Coerce(header, SetMin(Named(header, c)),
                             raw.rows[i][SetMin(Named(header, c))])]],
     dups |-> {c \in EXPECTED_COLUMNS : Cardinality(Named(header, c)) > 1},
     header |-> header,
     cells |-> [i \in 1..Len(raw.rows) |->
                  [j \in 1..Len(header) |-> Coerce(header, j, raw.rows[i][j])]]]

\* normalize_dataframe (main.py:72-85).  Under a name two columns carry
\* df[name] is a DataFrame: pd.to_datetime raises ValueError on it,
\* pd.to_numeric TypeError
normalize_dataframe(raw) ==
    IF Cardinality(Named(StripLower(raw.header), "date")) > 1 THEN Raise("ValueError")
    ELSE IF \E c \in NumericColumns : Cardinality(Named(StripLower(raw.header), c)) > 1
    THEN Raise("TypeError")
    ELSE Ok(Normalized(raw, StripLower(raw.header)))

\* pd.read_csv: a file without a header line raises EmptyDataError
read_csv(raw) == IF raw.header = <<>> THEN Raise("EmptyDataError") ELSE Ok(raw)

\* main.py:409-410 and 477-478
Load(raw) ==
    IF read_csv(raw).ok THEN normalize_dataframe(read_csv(raw).val) ELSE read_csv(raw)

\* " Date", "Item", "REVENUE" and a tab, "units_sold", "inventory_on_hand"
SalesFile ==
    [header |-> <<<<32, 68, 97, 116, 101>>, <<73, 116, 101, 109>>,
                  <<82, 69, 86, 69, 78, 85, 69, 9>>,
                  <<117, 110, 105, 116, 115, 95, 115, 111, 108, 100>>,
                  <<105, 110, 118, 101, 110, 116, 111, 114, 121, 95, 111, 110, 95, 104, 97, 110, 100>>>>,
     rows |-> << <<Day(1, 1), Name(1), Num(1000), Str(1, NaT, <<10>>), Num(5)>>,
                 <<Day(2, 8), Name(1), Num(500), Name(2), Num(5)>>,
                 <<Name(3), Name(2), Num(70), Str(3, NaT, <<3>>), Empty>> >>]
\* "date", "revenue", "Expenses"
LedgerFile ==
    [header |-> <<<<100, 97, 116, 101>>, <<114, 101, 118, 101, 110, 117, 101>>,
                  <<69, 120, 112, 101, 110, 115, 101, 115>>>>,
     rows |-> << <<Day(1, 1), Num(100), Num(30)>>, <<Day(2, 9), Num(150), Num(20)>> >>]
\* "Notes"
NotesFile == [header |-> <<<<78, 111, 116, 101, 115>>>>, rows |-> << <<Name(1)>> >>]
EmptyFile == [header |-> <<>>, rows |-> <<>>]
\* "date", "revenue": eight instants around the epoch, the last with an
\* outlying revenue
StampFile ==
    [header |-> <<<<100, 97, 116, 101>>, <<114, 101, 118, 101, 110, 117, 101>>>>,
     rows |-> [i \in 1..8 |-> <<Num(i - 3), Num(IF i = 8 THEN 100 ELSE 10)>>]]
\* " Date", "date" and a space, "revenue"
TwinFile ==
    [header |-> <<<<32, 68, 97, 116, 101>>, <<100, 97, 116, 101, 32>>,
                  <<114, 101, 118, 101, 110, 117, 101>>>>,
     rows |-> << <<Day(1, 1), Day(1, 1), Num(100)>> >>]
\* "date", "Revenue", "revenue" and a space
GrossFile ==
    [header |-> <<<<100, 97, 116, 101>>, <<82, 101, 118, 101, 110, 117, 101>>,
                  <<114, 101, 118, 101, 110, 117, 101, 32>>>>,
     rows |-> << <<Day(1, 1), Num(100), Num(90)>> >>]
\* "item", "Item", "inventory_on_hand", "units_sold"; item 0 is out of stock
ShelfFile ==
    [header |-> <<<<105, 116, 101, 109>>, <<73, 116, 101, 109>>,
                  <<105, 110, 118, 101, 110, 116, 111, 114, 121, 95, 111, 110, 95, 104, 97, 110, 100>>,
                  <<117, 110, 105, 116, 115, 95, 115, 111, 108, 100>>>>,
     rows |-> << <<Num(0), Name(1), Num(0), Num(2)>>, <<Num(1), Name(2), Num(9), Num(1)>> >>]
\* what a client uploads; LedgerFile is the file a previous run left behind
RawFiles == {SalesFile, NotesFile, EmptyFile, StampFile, TwinFile, GrossFile, ShelfFile}

CsvName == <<115, 46, 99, 115, 118>>  \* "s.csv"
TxtName == <<115, 46, 116, 120, 116>>  \* "s.txt"
Filenames == {CsvName, TxtName}
DotCsv == <<46, 99, 115, 118>>  \* ".csv"

\* str.endswith
endswith(text, suffix) ==
    /\ Len(text) >= Len(suffix)
    /\ SubSeq(text, Len(text) - Len(suffix) + 1, Len(text)) = suffix

AskQuestions ==
    {<<82, 101, 118, 101, 110, 117, 101, 32, 100, 114, 111, 112, 63>>,  \* "Revenue drop?"
     <<65, 110, 111, 109, 97, 108, 105, 101, 115, 63>>}  \* "Anomalies?"

(***************************************************************************)
(* Bounds of the server specification.                                     *)
(***************************************************************************)
MaxUuids == 3
MaxUploads == 1
IndexLimit == 50

\* Faulty variant of Put: the store overwrites the entries it already
\* holds.  C3 must tell it from Put.
PutOver(d, k, v) == [x \in (DOMAIN d) \cup {k} |-> v]

\* d[k] = v
Put(d, k, v) == [x \in (DOMAIN d) \cup {k} |-> IF x = k THEN v ELSE d[x]]

\* history: handle h was issued with the table `frame`
Issue(h, frame) ==
    [x \in (DOMAIN issued) \cup {h} |-> IF x \in DOMAIN issued THEN issued[x] ELSE frame]
Configured == llm.api_key /\ llm.openai

\* an upload record of a previous run, and its stored file
OldRecord == [file_id |-> 0, filename |-> CsvName, stored_name |-> 0]

ServerInit ==
    /\ df = NoFrame
    /\ out = NoCall
    /\ sortTies \in {"first", "last"}
    /\ DATASETS = <<>>
    /\ INDEX_FILE \in {<<>>, <<OldRecord>>}
    /\ UPLOAD_INDEX = INDEX_FILE
    /\ disk \in {<<>>, Put(<<>>, 0, LedgerFile)}
    /\ disk # <<>> => INDEX_FILE # <<>>
    /\ uuids = 0
    /\ uploads = {}
    /\ response = NoResponse
    /\ issued = <<>>
    /\ llm \in [api_key : BOOLEAN, openai : {TRUE}]

(***************************************************************************)
(* upload_csv (main.py:397-436): up to `await file.read()`, and after it.  *)
(***************************************************************************)
UploadRecord(u) == [file_id |-> u.file_id, filename |-> u.filename, stored_name |-> u.file_id]

UploadStart ==
    \E filename \in Filenames, contents \in RawFiles :
        /\ UNCHANGED <<df, out, sortTies>>
        /\ UNCHANGED <<DATASETS, UPLOAD_INDEX, INDEX_FILE, disk, issued, llm>>
        /\ IF ~endswith(filename, DotCsv)
           THEN /\ response' = [req |-> "upload", status |-> 400]
                /\ UNCHANGED <<uuids, uploads>>
           ELSE /\ uuids < MaxUuids
                /\ Cardinality(uploads) < MaxUploads
                /\ uuids' = uuids + 1
                /\ uploads' = uploads \cup
                      {[file_id |-> uuids + 1, filename |-> filename, contents |-> contents]}
                /\ response' = NoResponse

\* main.py:409-436, for what reading the stored file gave: an exception of
\* pd.read_csv or normalize_dataframe is a 500, and the file stays stored
UploadStore(u, loaded) ==
    IF ~loaded.ok
    THEN /\ response' = [req |-> "upload", status |-> 500]
         /\ UNCHANGED <<DATASETS, UPLOAD_INDEX, INDEX_FILE, uuids, issued>>
    ELSE IF EXPECTED_COLUMNS \cap loaded.val.columns = {}
    THEN /\ response' = [req |-> "upload", status |-> 400]
         /\ UNCHANGED <<DATASETS, UPLOAD_INDEX, INDEX_FILE, uuids, issued>>
    ELSE /\ uuids < MaxUuids
         /\ uuids' = uuids + 1
         /\ DATASETS' = Put(DATASETS, uuids + 1, loaded.val)
         /\ issued' = Issue(uuids + 1, loaded.val)
         /\ UPLOAD_INDEX' = <<UploadRecord(u)>> \o UPLOAD_INDEX
         /\ INDEX_FILE' = head(<<UploadRecord(u)>> \o UPLOAD_INDEX, IndexLimit)
         /\ response' = [req |-> "upload", status |-> 200, dataset_id |-> uuids + 1,
                         rows |-> Len(loaded.val.rows), file_id |-> u.file_id,
                         filename |-> u.filename]

UploadFinish ==
    \E u \in uploads :
        /\ UNCHANGED <<df, out, sortTies>>
        /\ UNCHANGED llm
        /\ uploads' = uploads \ {u}
        /\ disk' = Put(disk, u.file_id, u.contents)
        /\ UploadStore(u, Load(u.contents))

(***************************************************************************)
(* reprocess_upload (main.py:467-488)                                      *)
(***************************************************************************)
\* next((item for item in UPLOAD_INDEX if item["file_id"] == file_id), None)
FindRecord(file_id) == SelectSeq(UPLOAD_INDEX, LAMBDA item : item.file_id = file_id)

\* main.py:477-488, for what reading the stored file gave
ReprocessStore(record, loaded) ==
    IF ~loaded.ok
    THEN /\ response' = [req |-> "reprocess", status |-> 500]
         /\ UNCHANGED <<DATASETS, uuids, issued>>
    ELSE /\ uuids < MaxUuids
         /\ uuids' = uuids + 1
         /\ DATASETS' = Put(DATASETS, uuids + 1, loaded.val)
         /\ issued' = Issue(uuids + 1, loaded.val)
         /\ response' = [req |-> "reprocess", status |-> 200, dataset_id |-> uuids + 1,
                         rows |-> Len(loaded.val.rows), file_id |-> record.file_id,
                         filename |-> record.filename]

ReprocessRecord(record) ==
    IF record.stored_name \notin DOMAIN disk
    THEN /\ response' = [req |-> "reprocess", status |-> 404]
         /\ UNCHANGED <<DATASETS, uuids, issued>>
    ELSE ReprocessStore(record, Load(disk[record.stored_name]))

Reprocess ==
    \E file_id \in 0..MaxUuids :
        /\ UNCHANGED <<df, out, sortTies>>
        /\ UNCHANGED <<UPLOAD_INDEX, INDEX_FILE, disk, uploads, llm>>
        /\ IF FindRecord(file_id) = <<>>
           THEN /\ response' = [req |-> "reprocess", status |-> 404]
                /\ UNCHANGED <<DATASETS, uuids, issued>>
           ELSE ReprocessRecord(FindRecord(file_id)[1])

(***************************************************************************)
(* ask_copilot (main.py:439-459).  The handler has no await: it runs from  *)
(* the lookup to the response in one step of the event loop.  A run is the *)
(* handler part way: df is the table the handle resolved to, as the calls  *)
(* so far have left it, and each call is made on that table.  The only     *)
(* statements of the program that assign into a table are main.py:121, 123 *)
(* and 195, in compute_daily_financials and compute_anomalies.             *)
(***************************************************************************)
\* the call res, which leaves the table as `after`, bound to var
Bind(run, var, res, after) ==
    IF ~res.ok THEN [run EXCEPT !.ok = FALSE, !.exc = res.exc, !.df = after]
    ELSE [run EXCEPT ![var] = res.val, !.df = after]

\* build_evidence calls compute_anomalies after the two other windows
\* returned
df_after_evidence(frame, ties) ==
    IF compute_weekly_revenue(frame, ties).ok /\ compute_trending_items(frame, ties).ok
    THEN df_after_anomalies(frame, ties) ELSE frame

\* rule_based_answer calls compute_anomalies in its fourth rule (main.py:355)
AnomalyRuleRuns(q, weekly) ==
    /\ weekly.ok
    /\ ~RevenueRule(q, weekly.val)
    /\ ~(Contains(q, KwReorder) \/ Contains(q, KwStock))
    /\ ~(Contains(q, KwTrend) \/ Contains(q, KwTrending))
    /\ Contains(q, KwAnomal)

df_after_answer(question, frame, env, ties) ==
    IF /\ ~env.api_key \/ ~env.openai
       /\ AnomalyRuleRuns(lower(question), compute_weekly_revenue(frame, ties))
    THEN df_after_anomalies(frame, ties) ELSE frame

\* one of the calls at main.py:445-449, the one that binds var, made on the
\* table as the calls before it left it; a call that raises ends the
\* handler
AskCall(run, var, question, env, remote, ties) ==
    IF ~run.ok THEN run
    ELSE Bind(run, var,
              CASE var = "metrics" -> build_metrics(run.df, ties)
                [] var = "evidence" -> build_evidence(run.df, ties)
                [] var = "charts" -> build_charts(run.df, ties)
                [] var = "actions" -> build_actions(run.df, ties)
                [] var = "answer" ->
                      llm_answer(question, run.df, run.metrics, run.actions, env, remote,
                                 ties),
              CASE var = "evidence" -> df_after_evidence(run.df, ties)
                [] var = "charts" -> df_after_daily_financials(run.df, ties)
                [] var = "answer" -> df_after_answer(question, run.df, env, ties)
                [] OTHER -> run.df)

\* main.py:451-459
AskBody(run) ==
    [answer |-> run.answer, metrics |-> run.metrics, evidence |-> run.evidence,
     charts |-> run.charts, actions |-> run.actions,
     has_expenses |-> "expenses" \in run.df.columns, schema |-> run.df.header]

\* the table the handler leaves under the handle, and what it returns or
\* raises
AskReturn(run) ==
    [df |-> run.df, res |-> IF run.ok THEN Ok(AskBody(run)) ELSE Raise(run.exc)]

\* main.py:445-459, for the table the handle resolved to
ask_copilot(frame, question, env, remote, ties) ==
    AskReturn(
        AskCall(
            AskCall(
                AskCall(
                    AskCall(
                        AskCall([ok |-> TRUE, exc |-> "none", df |-> frame,
                                 metrics |-> <<>>, evidence |-> <<>>, charts |-> <<>>,
                                 actions |-> <<>>, answer |-> <<>>],
                                "metrics", question, env, remote, ties),
                        "evidence", question, env, remote, ties),
                    "charts", question, env, remote, ties),
                "actions", question, env, remote, ties),
            "answer", question, env, remote, ties))

\* the response of the framework: the body, or 500 for an unhandled
\* exception (again: history, the request before was an ask that resolved
\* the same handle)
AskResponse(dataset_id, question, remote, again, res) ==
    [req |-> "ask", status |-> IF res.ok THEN 200 ELSE 500, dataset_id |-> dataset_id,
     question |-> question, remote |-> remote, exc |-> res.exc, body |-> res.val,
     again |-> again]

NotFound(dataset_id, question) ==
    [req |-> "ask", status |-> 404, dataset_id |-> dataset_id, question |-> question,
     remote |-> "none", exc |-> "HTTPException", body |-> <<>>, again |-> FALSE]

\* the handler ran on the table of the handle
AskRan(dataset_id, question, remote, ran) ==
    /\ DATASETS' = [DATASETS EXCEPT ![dataset_id] = ran.df]
    /\ response' = AskResponse(dataset_id, question, remote,
                               /\ response.req = "ask"
                               /\ response.status # 404
                               /\ response.dataset_id = dataset_id,
                               ran.res)

\* remote: what the answering service does if it is called
AskCopilot ==
    \E dataset_id \in 0..MaxUuids, question \in AskQuestions, remote \in {"ok", "error"} :
        /\ Configured \/ remote = "ok"
        /\ UNCHANGED <<df, out, sortTies>>
        /\ UNCHANGED <<UPLOAD_INDEX, INDEX_FILE, disk, uuids, uploads, issued, llm>>
        /\ IF dataset_id \notin DOMAIN DATASETS
           THEN /\ response' = NotFound(dataset_id, question)
                /\ UNCHANGED DATASETS
           ELSE AskRan(dataset_id, question, remote,
                       ask_copilot(DATASETS[dataset_id], question, llm, remote, sortTies))

\* list_uploads (main.py:462-464): read only
ListUploads ==
    /\ response' = [req |-> "uploads", status |-> 200,
                    uploads |-> head(UPLOAD_INDEX, IndexLimit)]
    /\ UNCHANGED <<df, out, sortTies>>
    /\ UNCHANGED <<DATASETS, UPLOAD_INDEX, INDEX_FILE, disk, uuids, uploads, issued, llm>>

Next ==
    \/ UploadStart
    \/ UploadFinish
    \/ Reprocess
    \/ AskCopilot
    \/ ListUploads

Init == ServerInit

Spec == Init /\ [][Next]_vars

(***************************************************************************)
(* Properties of the analytics engine (EngineSpec).  `out` is the call     *)
(* made on the table `df`.                                                 *)
(***************************************************************************)
Windows ==
    {"compute_weekly_revenue", "compute_daily_financials", "compute_trending_items",
     "compute_reorder_list", "compute_anomalies"}

\* the columns a window needs
HasNeeded(fn, frame) ==
    CASE fn = "compute_trending_items" ->
            {"date", "item", "units_sold"} \subseteq frame.columns
      [] fn = "compute_reorder_list" ->
            /\ {"inventory_on_hand", "units_sold"} \subseteq frame.columns
            /\ {"item", "sku", "category"} \cap frame.columns # {}
      [] OTHER -> {"date", "revenue"} \subseteq frame.columns

\* the n largest elements of S
Largest(S, n) == {x \in S : Cardinality({y \in S : y > x}) < n}

\* the timestamps of the rows that have one
ValidDates(frame) ==
    IF "date" \in frame.columns
    THEN {r["date"] : r \in Range(dropna(frame.rows, "date"))} ELSE {}

\* the n latest timestamps of S, and the latest
Latest(S, n) == {t \in S : Cardinality({u \in S : TsLess(t, u)}) < n}
LatestOf(S) == CHOOSE t \in S : \A u \in S : ~TsLess(t, u)

\* C1: on every normalized table each of the five metric windows returns a
\* table and never raises, and the table is empty whenever a column the
\* window needs is absent.
C1_WindowsNeverRaise ==
    out.fn \in Windows =>
        /\ out.res.ok
        /\ ~HasNeeded(out.fn, df) => out.res.val = <<>>

\* what upload_csv admits under a handle: at least one expected column
Storable(frame) == EXPECTED_COLUMNS \cap frame.columns # {}

DataDriven(actions) ==
    {j \in 1..Len(actions) : actions[j].kind \in {"reorder", "revenue_drop"}}

\* C2: for every table stored under a handle build_actions returns a
\* non-empty list; the fallback action is in it exactly when no reorder and
\* no revenue-drop action qualified, and is then its only element.
C2_ActionsNeverEmpty ==
    (out.fn = "build_actions" /\ Storable(df)) =>
        /\ out.res.ok
        /\ out.res.val # <<>>
        /\ (FallbackAction \in Range(out.res.val)) <=> (DataDriven(out.res.val) = {})
        /\ (FallbackAction \in Range(out.res.val)) => out.res.val = <<FallbackAction>>

\* the number of the first rule whose condition holds on the lower-cased
\* question q
FirstRule(q, weekly) ==
    IF /\ Contains(q, KwRevenue) /\ Contains(q, KwDrop)
       /\ Len(weekly) >= 2 /\ weekly[Len(weekly) - 1].revenue > 0
    THEN 1
    ELSE IF Contains(q, KwReorder) \/ Contains(q, KwStock) THEN 2
    ELSE IF Contains(q, KwTrend) THEN 3
    ELSE IF Contains(q, KwAnomal) THEN 4
    ELSE 5

AnswersOfRule ==
    <<{"revenue_fell"}, {"inventory_stable", "urgent_reorder"}, {"no_trend", "trending_up"},
      {"no_anomalies", "anomaly"}, {"quick_read"}>>

\* C5: for every question and every table rule_based_answer returns the
\* answer of the first rule, in the order 1..5, whose condition holds on the
\* lower-cased question; a question that fails rule 1's data conditions
\* falls through to rules 2-5.
C5_FirstMatchingRuleAnswers ==
    out.fn = "rule_based_answer" =>
        /\ out.res.ok
        /\ out.res.val.kind \in
              AnswersOfRule[FirstRule(lower(out.arg), compute_weekly_revenue(df, sortTies).val)]

Labels(metrics) == [j \in 1..Len(metrics) |-> metrics[j].label]

FixedLabels(frame) ==
    (IF "revenue" \in frame.columns THEN <<"Total revenue">> ELSE <<>>)
    \o <<"Total expenses">>
    \o (IF "revenue" \in frame.columns THEN <<"Net income">> ELSE <<>>)
    \o (IF "units_sold" \in frame.columns THEN <<"Units sold">> ELSE <<>>)

\* C10: for every normalized table build_metrics returns, without raising,
\* the entries Total revenue, Total expenses, Net income, Units sold, Top
\* item in that order: Total revenue and Net income exactly when revenue is
\* present, Total expenses always (0 without expenses), Units sold exactly
\* when units_sold is present, Top item only if item and revenue are both
\* present, naming the item with the highest summed revenue.
C10_MetricsOrderAndPresence ==
    out.fn = "build_metrics" =>
        /\ out.res.ok
        /\ \/ Labels(out.res.val) = FixedLabels(df)
           \/ /\ Labels(out.res.val) = FixedLabels(df) \o <<"Top item">>
              /\ {"item", "revenue"} \subseteq df.columns
              /\ \A it \in ItemsOf(df.rows) :
                    ItemSum(df.rows, it, "revenue")
                        <= ItemSum(df.rows, out.res.val[Len(out.res.val)].name[1], "revenue")
        /\ \A j \in 1..Len(out.res.val) :
              (out.res.val[j].label = "Total expenses" /\ "expenses" \notin df.columns)
                  => out.res.val[j].value = 0

WeeksOf(frame) == {WeekStart(d) : d \in ValidDates(frame)}

\* the keys of the rows of a derived table, in row order
Column(rows, c) == [j \in 1..Len(rows) |-> rows[j][c]]
Ascending(s) == \A j \in 1..(Len(s) - 1) : s[j] < s[j + 1]
AscendingDates(s) == \A j \in 1..(Len(s) - 1) : TsLess(s[j], s[j + 1])
Descending(s) == \A j \in 1..(Len(s) - 1) : s[j] >= s[j + 1]

\* C7: where a window's required columns are present its output respects
\* its cap and order: Weekly Revenue at most 6 rows ascending by week, the 6
\* most recent weeks that have rows; Daily Financials at most 14 rows
\* ascending by date, the most recent dates; Trending Items at most 8 rows
\* descending by change; Reorder List at most 10 rows ascending by
\* weeks_of_cover; Anomalies at most 5 rows ascending by date.
C7_CapsAndOrder ==
    (out.fn \in Windows /\ HasNeeded(out.fn, df)) =>
        /\ out.res.ok
        /\ out.fn = "compute_weekly_revenue" =>
              /\ Len(out.res.val) <= 6
              /\ Ascending(Column(out.res.val, "week"))
              /\ Range(Column(out.res.val, "week")) = Largest(WeeksOf(df), 6)
        /\ out.fn = "compute_daily_financials" =>
              /\ Len(out.res.val) <= 14
              /\ AscendingDates(Column(out.res.val, "date"))
              /\ Range(Column(out.res.val, "date")) = Latest(ValidDates(df), 14)
        /\ out.fn = "compute_trending_items" =>
              /\ Len(out.res.val) <= 8
              /\ Descending(Column(out.res.val, "change"))
        /\ out.fn = "compute_reorder_list" =>
              /\ Len(out.res.val) <= 10
              /\ \A j \in 1..(Len(out.res.val) - 1) :
                    ~WocLess(out.res.val[j + 1], out.res.val[j])
        /\ out.fn = "compute_anomalies" =>
              /\ Len(out.res.val) <= 5
              /\ AscendingDates(Column(out.res.val, "date"))

\* a table with more than 6 weeks, of which Weekly Revenue kept 6
C7_Witness ==
    /\ out.fn = "compute_weekly_revenue"
    /\ HasNeeded(out.fn, df)
    /\ Cardinality(WeeksOf(df)) > 6
    /\ Len(out.res.val) = 6

\* the actions of kind k in a list, as positions
OfKind(actions, k) == {j \in 1..Len(actions) : actions[j].kind = k}

\* the condition of the revenue-drop action on Weekly Revenue
DropQualifies(frame, weekly) ==
    /\ {"revenue", "date"} \subseteq frame.columns
    /\ Len(weekly) >= 2
    /\ weekly[Len(weekly) - 1].revenue > 0
    /\ weekly[Len(weekly)].revenue < weekly[Len(weekly) - 1].revenue

Min(a, b) == IF a < b THEN a ELSE b

\* t is n / d to the nearest unit: one of the two neighbours at a half
Nearest(t, n, d) == 2 * Abs(n - t * d) <= d

\* C8: in the list build_actions returns, at most 3 reorder actions come
\* first, one per row of the 3 most urgent Reorder List rows in their
\* order, followed by the revenue-drop action, present exactly when revenue
\* and date are present, Weekly Revenue has at least 2 weeks, the prior
\* week's revenue is > 0 and the last week's is strictly lower; the
\* percentage is (prior - last) / prior * 100 to one decimal (in tenths,
\* the nearest to the exact value), 50.0 for weekly revenue [1000, 500].
C8_ActionOrderAndDrop ==
    (out.fn = "build_actions" /\ out.res.ok) =>
        LET actions == out.res.val
            reorder == compute_reorder_list(df, sortTies).val
            weekly == compute_weekly_revenue(df, sortTies).val
            n == Min(Len(reorder), 3)
        IN  /\ OfKind(actions, "reorder") = 1..n
            /\ \A j \in 1..n :
                  /\ actions[j].name = DisplayName(reorder[j])
                  /\ Nearest(actions[j].x, reorder[j].inv_n, reorder[j].inv_d)
                  /\ Nearest(actions[j].y, 10 * reorder[j].avg_n, reorder[j].avg_d)
            /\ OfKind(actions, "revenue_drop") =
                  (IF DropQualifies(df, weekly) THEN {n + 1} ELSE {})
            /\ \A j \in OfKind(actions, "revenue_drop") :
                  /\ Nearest(actions[j].x,
                             1000 * (weekly[Len(weekly) - 1].revenue
                                     - weekly[Len(weekly)].revenue),
                             weekly[Len(weekly) - 1].revenue)
                  /\ (Column(weekly, "revenue") = <<1000, 500>>) => actions[j].x = 500

\* weekly revenue [1000, 500]: reorder actions, one of them for item 0 and
\* named by the sku and one for item 0 of sku 0 and named "Item", then the
\* 50.0% drop
C8_Witness ==
    /\ out.fn = "build_actions"
    /\ out.res.ok
    /\ Column(compute_weekly_revenue(df, sortTies).val, "revenue") = <<1000, 500>>
    /\ Len(out.res.val) >= 3
    /\ out.res.val[1].kind = "reorder"
    /\ \E j, k \in 1..(Len(out.res.val) - 1) :
          /\ compute_reorder_list(df, sortTies).val[j].item = <<0>>
          /\ out.res.val[j].name = [col |-> "sku", id |-> 10]
          /\ compute_reorder_list(df, sortTies).val[k].item = <<0>>
          /\ out.res.val[k].name = [col |-> "Item", id |-> 0]
    /\ out.res.val[Len(out.res.val)].kind = "revenue_drop"
    /\ out.res.val[Len(out.res.val)].x = 500

\* a row dated d with from <= d, and d < to, or d <= to if the window is
\* closed
InWindow(r, from, to, closed) ==
    /\ ~IsNA(r["date"])
    /\ ~TsLess(r["date"], from)
    /\ TsLess(r["date"], to) \/ (closed /\ r["date"] = to)

\* units_sold of item `it` summed over the rows of a window
UnitsIn(frame, it, from, to, closed) ==
    SumCol(SelectSeq(frame.rows,
               LAMBDA r : InWindow(r, from, to, closed) /\ r["item"] = <<it>>),
           "units_sold")

\* the items with a row in a window
ItemsIn(frame, from, to, closed) ==
    {r["item"][1] : r \in {x \in Range(frame.rows) :
        InWindow(x, from, to, closed) /\ ~IsNA(x["item"])}}

\* Trending Items with the prior week ending `gap` days before last_date:
\* per item, last week sums units_sold over
\* last_date - 6 days <= d <= last_date, the prior week over
\* last_date - 13 days <= d < last_date - gap days; an item without rows in
\* a window counts 0 there; change = last_week - prior_week; the items are
\* those with a row in either window, so rows outside both contribute to
\* neither sum.
TrendingWindows(gap) ==
    (out.fn = "compute_trending_items" /\ out.res.ok /\ out.res.val # <<>>) =>
        LET last_date == LatestOf(ValidDates(df))
            trend == out.res.val
        IN  /\ \A j \in 1..Len(trend) :
                  /\ trend[j].last_week =
                        UnitsIn(df, trend[j].item, DaysBefore(last_date, 6), last_date, TRUE)
                  /\ trend[j].prior_week =
                        UnitsIn(df, trend[j].item, DaysBefore(last_date, 13),
                                DaysBefore(last_date, gap), FALSE)
                  /\ trend[j].change = trend[j].last_week - trend[j].prior_week
                  /\ trend[j].item
                        \in ItemsIn(df, DaysBefore(last_date, 13), last_date, TRUE)
            /\ Len(trend) < 8 =>
                  Range(Column(trend, "item"))
                      = ItemsIn(df, DaysBefore(last_date, 13), last_date, TRUE)

\* C9 (as stated): the prior week is
\* last_date - 13 days <= d < last_date - 7 days.
C9_PriorWeekEndsBeforeDay7 == TrendingWindows(7)

\* C9 (as the code has it): the prior week is the 7 days before last week
\* starts, last_date - 13 days <= d < last_date - 6 days; the rest of the
\* claim as stated.
C9_PriorWeekIsSevenDays == TrendingWindows(6)

\* a row dated last_date - 7 days with sales, counted in an item's prior
\* week
C9_Witness ==
    /\ out.fn = "compute_trending_items"
    /\ out.res.ok
    /\ \E j \in 1..Len(out.res.val) :
          /\ UnitsIn(df, out.res.val[j].item, DaysBefore(LatestOf(ValidDates(df)), 7),
                     DaysBefore(LatestOf(ValidDates(df)), 7), TRUE) > 0
          /\ out.res.val[j].prior_week > 0
          /\ out.res.val[j].last_week > 0

(***************************************************************************)
(* Properties of the request handlers (Spec).  `response` is the response  *)
(* of the step just taken, `issued` the table each handle was issued with. *)
(***************************************************************************)
AskDone == response.req = "ask"

\* C3: an ask returns 404 exactly when its dataset_id was never issued by a
\* successful upload or reprocess; every issued handle keeps resolving to
\* the table it was created with, whatever is uploaded or reprocessed
\* later; a failed lookup creates no entry in the registry.
C3_HandlesResolve ==
    /\ AskDone => (response.status = 404 <=> response.dataset_id \notin DOMAIN issued)
    /\ (AskDone /\ response.status = 404) => response.dataset_id \notin DOMAIN DATASETS
    /\ DOMAIN DATASETS = DOMAIN issued
    /\ \A h \in DOMAIN issued : DATASETS[h] = issued[h]

\* a lookup that failed although handles had been issued, by an upload and
\* by a reprocess
C3_Witness ==
    /\ AskDone
    /\ response.status = 404
    /\ Cardinality(DOMAIN DATASETS) >= 2
    /\ \E h, g \in DOMAIN DATASETS : DATASETS[h] # DATASETS[g]

\* the response an ask produces if it runs alone on the table its handle
\* was issued with
AskAlone(r) ==
    AskResponse(r.dataset_id, r.question, r.remote, r.again,
                ask_copilot(issued[r.dataset_id], r.question, llm, r.remote, sortTies).res)

\* C6: processing an ask leaves the table stored under the handle
\* unchanged (columns, rows, cells), so in any order of asks on the same or
\* on different handles each response is the one the request produces run
\* alone on that table.
C6_AskLeavesTableUnchanged ==
    (AskDone /\ response.status # 404) =>
        /\ \A h \in DOMAIN DATASETS :
              /\ DATASETS[h].header = issued[h].header
              /\ DATASETS[h].cells = issued[h].cells
              /\ DATASETS[h] = issued[h]
        /\ response = AskAlone(response)

\* an answered ask on the handle of the ask before, on a table without
\* expenses:
\* both times daily["expenses"] and daily["net_income"] were assigned for
\* the chart and daily["z_score"] for the anomalies of the evidence
C6_Witness ==
    /\ AskDone
    /\ response.status = 200
    /\ response.again
    /\ "expenses" \notin issued[response.dataset_id].columns
    /\ response.body.charts # <<>>
    /\ \E j \in 1..Len(response.body.evidence) :
          response.body.evidence[j].title = "Revenue anomalies"
    /\ response.body.answer.kind = "anomaly"

\* the synthesis layer returned for the table of handle h
SynthesisReturns(frame) ==
    /\ build_metrics(frame, sortTies).ok
    /\ build_evidence(frame, sortTies).ok
    /\ build_charts(frame, sortTies).ok
    /\ build_actions(frame, sortTies).ok

\* C4: when the answering service is configured but the remote call fails,
\* the ask is not aborted: the answer is the rule-based answer for the same
\* question and table, and the response carries metrics, evidence, charts
\* and actions as usual.
C4_RemoteFailureFallsBack ==
    (/\ AskDone
     /\ response.status # 404
     /\ Configured
     /\ response.remote = "error"
     /\ SynthesisReturns(issued[response.dataset_id])
     /\ rule_based_answer(response.question, issued[response.dataset_id], sortTies).ok) =>
        /\ response.status = 200
        /\ response.body.answer =
              rule_based_answer(response.question, issued[response.dataset_id], sortTies).val
        /\ response.body.metrics = build_metrics(issued[response.dataset_id], sortTies).val
        /\ response.body.actions = build_actions(issued[response.dataset_id], sortTies).val

====
